---- MODULE Spec2Model ----
(***************************************************************************)
(* Round-robin / weighted round-robin load balancer with health probing.   *)
(* State machine of LoadBalancer, RoundRobinLoadBalancer,                  *)
(* WeightedRoundRobinLoadBalancer, Server and PingServer.                  *)
(***************************************************************************)
EXTENDS Integers, Sequences, FiniteSets, TLC

\* ------------------------------------------------------------------------
\* Bounds of the model
\* ------------------------------------------------------------------------
\* longest server list handed to a balancer constructor
MaxInitLen == 2
\* largest weight a Server is constructed with
MaxWeight == 3
\* cap on the consecutive-failure counter (a failing probe is not taken past it)
MaxFailureCount == 3
\* number of most recent consecutive getNextServer results kept in the history
MaxRun == 4
\* longest server list handed to PingServer::pingServers in the step-wise model
MaxPingLen == 3
\* largest value of PingServer::_threadPoolSize
MaxPoolSize == 2
\* threads calling getNextServer at the same time
MaxCallers == 2
\* getNextServer calls followed in one batch of overlapping calls
MaxBatch == 3
\* background loop threads that can exist at one time
MaxLoops == 2
\* threads calling startHealthChecks and stopHealthChecks
MaxControllers == 2
\* cycles of the background loop followed
MaxCycles == 1
\* threads calling incrementConnections and decrementConnections on one Server
MaxClients == 3
\* incrementConnections calls made
MaxIncrements == 2
\* decrementConnections calls made
MaxDecrements == 3
\* threads calling into one balancer
MaxThreads == 3
\* calls made by those threads altogether
MaxIssued == 3
\* largest value given to setMaxHealthCheckFailures
MaxConfiguredFailures == 4
\* constructor calls in a row
MaxAttempts == 2
\* instants of the clock sampled after time 0 and after the default TTL
MaxLate == 2

VARIABLES
    maxHealthCheckFailures  \* LoadBalancer::_maxHealthCheckFailures

\* LoadBalancer::LoadBalancer: uint32_t maxHealthCheckFailures = 3
DefaultMaxHealthCheckFailures == 3

\* variant: the prober takes its threshold from the balancer's configuration
FailureThreshold_Configured == maxHealthCheckFailures

\* ------------------------------------------------------------------------
\* Program constants
\* ------------------------------------------------------------------------
\* "if (server->getFailureCount() >= 3)"
FailureThreshold == 3
\* PingServer::PingServer: _dnsCacheTTL(300), in seconds
DefaultDNSCacheTTL == 300
\* Server objects (shared_ptr identities) and nullptr
Servers == {"s1", "s2", "s3"}
None == "nullptr"

\* Server::getServerAddress: s1 and s3 are two objects with the same address
getServerAddress(s) == IF s = "s2" THEN "b" ELSE "a"

Addresses == {getServerAddress(s) : s \in Servers}

\* weight each Server object is constructed with: the heaviest, 1 and 0
ConstructedWeight(s) == CASE s = "s1" -> MaxWeight [] s = "s2" -> 1 [] OTHER -> 0

VARIABLES
    lb,                     \* class of the constructed balancer: "RR" | "WRR"
    serversList,            \* LoadBalancer::_serversList
    currentServerIndex,     \* _currentServerIndex of the concrete balancer
    weightedServersList,    \* WeightedRoundRobinLoadBalancer::_weightedServersList
    server,                 \* fields of every Server object
    op,                     \* name of the last completed call
    arg,                    \* its argument
    ret,                    \* its return value
    run,                    \* history: last getNextServer calls with no other call in between
    removed,                \* history: addresses removed with success and not added since
    added,                  \* history: servers added with success and not removed since
    streak                  \* history: failed probes in a row since alive /\ failureCount = 0

\* state of a running PingServer::parallelPingImplementation, step by step
VARIABLES
    pp,                     \* its frame: state, servers, poolSize, nextIndex, allSuccessful, ret
    workers,                \* per std::async worker: pc, index, result, count
    probes                  \* history: calls of _pingImplementation per list index

pingVars == <<pp, workers, probes>>

\* getNextServer called from several threads, step by step
VARIABLES
    callers,                \* per calling thread: pc, startIndex, ret
    batch                   \* history: cursor when the batch began, calls completed, their results

selectVars == <<callers, batch>>

\* LoadBalancer::_serversMutex and the threads that take it
VARIABLES
    serversMutex,           \* threads holding the lock shared
    mutator                 \* the thread calling addServer / removeServer: pc, call, arg

lockVars == <<serversMutex, mutator>>

\* the background loop of PingServer and the thread that starts and stops it
VARIABLES
    isRunning,              \* PingServer::_isRunning
    pingTask,               \* PingServer::_pingTask: 0 (no state) or the loop it refers to
    pingLoops,              \* per loop thread: pc, servers (the snapshot it pings)
    ctl                     \* the controlling thread: pc, call, servers, task

backgroundVars == <<isRunning, pingTask, pingLoops>>

\* the background loop of LoadBalancer
VARIABLES
    healthCheckRunning,     \* LoadBalancer::_healthCheckRunning
    healthCheckTask,        \* LoadBalancer::_healthCheckTask: 0 (no state) or the loop it refers to
    healthLoops             \* per loop thread: pc

healthLoopVars == <<healthCheckRunning, healthCheckTask, healthLoops>>

VARIABLES
    revived                 \* history: targets probed with success while not alive,
                            \*          and not probed with failure since

balancerVars == <<lb, serversList, currentServerIndex, weightedServersList>>

historyVars == <<op, arg, ret, run, removed, added, streak>>

\* everything outside the call-level model of the balancer
VARIABLES
    dnsCache,               \* PingServer::_dnsCache: hostname -> DNSCacheEntry, or NoEntry
    dnsCacheTTL,            \* PingServer::_dnsCacheTTL
    now,                    \* std::chrono::steady_clock::now(), in seconds
    dns,                    \* the resolveHostname call in progress
    calls                   \* history: the last two calls of resolveHostname
dnsVars == <<dnsCache, dnsCacheTTL, now, dns, calls>>

VARIABLES
    given                   \* history: the lists handed to the constructor calls

VARIABLES
    controllers             \* threads in startHealthChecks / stopHealthChecks: position
                            \*   and the future their std::async returned

VARIABLES
    callerList,             \* the caller's vector startBackgroundPing is handed by reference
    probed                  \* history: the loop that pinged last and the list it pinged
snapshotVars == <<callerList, probed>>

VARIABLES
    anyFailed               \* history: a probe of the pingServers call under way or
                            \*   returned last came back false

VARIABLES
    rebuild                 \* history of updateWeightedList calls made by getNextServer

VARIABLES
    cycle                   \* the performHealthCheck call of the background loop: the copy
                            \*   of the pool it pings; history: the addresses removed and
                            \*   the targets added when it took the lock

VARIABLES
    threads,                \* per calling thread: the call it is in, its position, the
                            \*   locals of the scan and of updateWeightedList
    weightedListMutex,      \* _weightedListMutex: the thread holding it, or 0
    configMutex,            \* _configMutex: the thread holding it, or 0
    issued                  \* calls entered so far

callVars == <<threads, weightedListMutex, configMutex, issued>>

VARIABLES
    currentConnections,     \* Server::_currentConnections of one Server, a uint32_t, held
                            \*   as the signed integer with the same 32 bits: 0 - 1 is
                            \*   -1, the bit pattern of 2^32 - 1
    clients,                \* per thread: its position in decrementConnections and the
                            \*   value it loaded
    incremented,            \* history: incrementConnections calls made
    decremented             \* history: decrementConnections calls entered

connectionVars == <<currentConnections, clients, incremented, decremented>>

VARIABLES
    reads                   \* history: the indices the last getNextServer read its
                            \*   list at, and the size of that list

aux == <<pingVars, selectVars, lockVars, backgroundVars, healthLoopVars, ctl, revived, dnsVars,
         given, controllers, snapshotVars, cycle, anyFailed, rebuild, maxHealthCheckFailures,
         callVars, reads, connectionVars>>

\* what the steps of a parallel ping leave alone, besides the balancer
notPing == <<selectVars, lockVars, backgroundVars, healthLoopVars, ctl, revived, dnsVars, given,
    controllers, snapshotVars, cycle, anyFailed, rebuild,
    maxHealthCheckFailures, callVars, reads,
    connectionVars>>

\* what the steps of a getNextServer call leave alone
notSelect == <<pingVars, lockVars, backgroundVars, healthLoopVars, ctl, revived, dnsVars, given,
    controllers, snapshotVars, cycle, anyFailed, rebuild,
    maxHealthCheckFailures, callVars, reads,
    connectionVars>>

\* what the steps of the lock model leave alone
notLock == <<pingVars, selectVars, backgroundVars, healthLoopVars, ctl, revived, dnsVars, given,
    controllers, snapshotVars, cycle, anyFailed, rebuild,
    maxHealthCheckFailures, callVars, reads,
    connectionVars>>

\* what the steps of the prober's background loop leave alone
notBackground == <<pingVars, selectVars, lockVars, healthLoopVars, revived, dnsVars, given,
    controllers, snapshotVars, cycle, anyFailed, rebuild,
    maxHealthCheckFailures, callVars, reads,
    connectionVars>>

\* what the call-level actions with the revival history leave alone
notRevived == <<pingVars, selectVars, lockVars, backgroundVars, healthLoopVars, ctl, dnsVars, given,
    controllers, snapshotVars, cycle, anyFailed, rebuild,
    maxHealthCheckFailures, callVars, reads,
    connectionVars>>

\* what the steps of several threads in startHealthChecks / stopHealthChecks leave alone
notControl == <<pingVars, selectVars, lockVars, backgroundVars, ctl, revived, dnsVars, given, snapshotVars, cycle, anyFailed, rebuild,
    maxHealthCheckFailures, callVars, reads,
    connectionVars>>

\* what the background loop with a caller-owned list leaves alone
notSnapshot == <<pingVars, selectVars, lockVars, healthLoopVars, revived, dnsVars, given,
    controllers, cycle, anyFailed, rebuild,
    maxHealthCheckFailures, callVars, reads,
    connectionVars>>

\* what a cycle of the background loop leaves alone
notCycle == <<pingVars, selectVars, backgroundVars, revived, dnsVars, given, controllers,
    snapshotVars, anyFailed, rebuild,
    maxHealthCheckFailures, callVars, reads,
    connectionVars>>

\* what a pingServers call with its results followed leaves alone
notPingResult == <<selectVars, lockVars, backgroundVars, healthLoopVars, ctl, revived, dnsVars,
    given, controllers, snapshotVars, cycle, rebuild,
    maxHealthCheckFailures, callVars, reads,
    connectionVars>>

\* what the calls with the rebuild history leave alone
notRebuild == <<pingVars, selectVars, lockVars, backgroundVars, healthLoopVars, ctl, revived,
    dnsVars, given, controllers, snapshotVars, cycle, anyFailed,
    maxHealthCheckFailures, callVars, reads,
    connectionVars>>

\* what setMaxHealthCheckFailures leaves alone
notConfig == <<pingVars, selectVars, lockVars, backgroundVars, healthLoopVars, ctl, revived,
    dnsVars, given, controllers, snapshotVars, cycle, anyFailed, rebuild, callVars, reads,
    connectionVars>>

\* what calls from several threads leave alone
notCalls == <<pingVars, selectVars, mutator, backgroundVars, healthLoopVars, ctl, revived,
    dnsVars, given, controllers, snapshotVars, cycle, anyFailed, rebuild,
    maxHealthCheckFailures, reads,
    connectionVars>>

\* what getNextServer with its reads followed leaves alone
notIndex == <<pingVars, selectVars, lockVars, backgroundVars, healthLoopVars, ctl, revived,
    dnsVars, given, controllers, snapshotVars, cycle, anyFailed, rebuild,
    maxHealthCheckFailures, callVars,
    connectionVars>>

\* what incrementConnections and decrementConnections leave alone
notConnections == <<pingVars, selectVars, lockVars, backgroundVars, healthLoopVars, ctl,
    revived, dnsVars, given, controllers, snapshotVars, cycle, anyFailed, rebuild,
    maxHealthCheckFailures, callVars, reads>>

\* what the steps of resolveHostname leave alone
notDNS == <<pingVars, selectVars, lockVars, backgroundVars, healthLoopVars, ctl, revived, given,
    controllers, snapshotVars, cycle, anyFailed, rebuild,
    maxHealthCheckFailures, callVars, reads,
    connectionVars>>

\* what the steps of the balancer's background loop leave alone
notHealthLoop == <<pingVars, selectVars, lockVars, backgroundVars, revived, dnsVars, given,
    controllers, snapshotVars, cycle, anyFailed, rebuild,
    maxHealthCheckFailures, callVars, reads,
    connectionVars>>

vars == <<lb, serversList, currentServerIndex, weightedServersList, server,
          op, arg, ret, run, removed, added, streak, aux>>

\* worker slots of one parallel ping
Workers == 1..MaxPoolSize

\* no parallel ping has been started
IdlePing ==
    /\ pp = [state |-> "idle", servers |-> <<>>, poolSize |-> 0, nextIndex |-> 0,
             allSuccessful |-> TRUE, ret |-> TRUE]
    /\ workers = [w \in Workers |-> [pc |-> "off", index |-> 0, result |-> FALSE, count |-> 0]]
    /\ probes = [i \in 1..MaxPingLen |-> 0]

\* calling threads
Callers == 1..MaxCallers

\* no getNextServer call is in progress
IdleCallers ==
    /\ callers = [t \in Callers |-> [pc |-> "idle", startIndex |-> 0]]
    /\ batch = [base |-> 0, done |-> 0, rets |-> <<>>]

\* nobody holds or wants _serversMutex
IdleLock ==
    /\ serversMutex = {}
    /\ mutator = [pc |-> "idle", call |-> "none", arg |-> None]

\* loop thread slots
Loops == 1..MaxLoops

\* the controlling thread is in no call
IdleCtl == ctl = [pc |-> "idle", call |-> "none", servers |-> <<>>, task |-> 0]

\* PingServer::PingServer: _isRunning(false), no task
IdleBackground ==
    /\ isRunning = FALSE
    /\ pingTask = 0
    /\ pingLoops = [l \in Loops |-> [pc |-> "none", servers |-> <<>>]]

\* LoadBalancer::LoadBalancer: _healthCheckRunning(false), no task
IdleHealthLoop ==
    /\ healthCheckRunning = FALSE
    /\ healthCheckTask = 0
    /\ healthLoops = [l \in Loops |-> [pc |-> "none"]]

\* host names: two that need resolution and an IPv4 literal
Hostnames == {"h1", "h2", "10.0.0.1"}
\* addresses getaddrinfo may return
ResolvedIPs == {"ip1", "ip2"}
NoEntry == [resolvedIP |-> "", expiryTime |-> -1]
IdleResolve == [pc |-> "idle", host |-> "", at |-> 0, ip |-> ""]

IdleDNS ==
    /\ dnsCache = [h \in Hostnames |-> NoEntry]
    /\ dnsCacheTTL = DefaultDNSCacheTTL
    /\ now = 0
    /\ dns = IdleResolve
    /\ calls = <<>>

\* calling threads
Threads == 1..MaxThreads
IdleThread == [pc |-> "idle", call |-> "none", arg |-> None, startIndex |-> 0,
               serverCount |-> 0, i |-> 0, fallbackServer |-> None, serversCopy |-> <<>>]
IdleCalls ==
    /\ threads = [t \in Threads |-> IdleThread]
    /\ weightedListMutex = 0
    /\ configMutex = 0
    /\ issued = 0

NoReads == [indices |-> {}, size |-> 0]

\* threads using one Server
Clients == 1..MaxClients
\* Server::Server: _currentConnections(0); no call under way
IdleConnections ==
    /\ currentConnections = 0
    /\ clients = [t \in Clients |-> [pc |-> "idle", current |-> 0]]
    /\ incremented = 0
    /\ decremented = 0

InitAux ==
    /\ IdleCalls
    /\ reads = NoReads
    /\ IdleConnections
    /\ IdlePing /\ IdleCallers /\ IdleLock /\ IdleBackground /\ IdleHealthLoop /\ IdleCtl
    /\ revived = {}
    /\ IdleDNS
    /\ given = <<>>
    /\ controllers = [t \in 1..MaxControllers |-> [pc |-> "idle", task |-> 0]]
    /\ callerList = <<>>
    /\ probed = [loop |-> 0, servers |-> <<>>]
    /\ anyFailed = FALSE
    /\ rebuild = [last |-> FALSE, builtDead |-> FALSE, wasDead |-> FALSE]
    /\ cycle = [state |-> "none", n |-> 0, servers |-> <<>>, removed |-> {}, added |-> {}]

\* ------------------------------------------------------------------------
\* Server (src/src/server.cpp); a Server is a record of its atomic fields
\* ------------------------------------------------------------------------
NewServer(w) ==
    [isAlive |-> TRUE, isHealthy |-> FALSE, weight |-> w, failureCount |-> 0]

setAlive(r, b) == [r EXCEPT !.isAlive = b]

resetFailures(r) == [r EXCEPT !.failureCount = 0]

\* the uint32 counter cannot wrap below the cap MaxFailureCount of the model
incrementFailures(r) == [r EXCEPT !.failureCount = @ + 1]

setHealthy(r, h) ==
    IF h THEN resetFailures([r EXCEPT !.isHealthy = h])
         ELSE [r EXCEPT !.isHealthy = h]

\* ------------------------------------------------------------------------
\* PingServer (src/src/ping_server.cpp)
\* ------------------------------------------------------------------------
\* variant: the threshold test written with > instead of >=
ParallelPingUpdate_Late(r, result) ==
    LET r1 == setHealthy(r, result) IN
    IF ~result
    THEN LET r2 == incrementFailures(r1) IN
         IF r2.failureCount > FailureThreshold THEN setAlive(r2, FALSE) ELSE r2
    ELSE setAlive(resetFailures(r1), TRUE)

\* body of a worker for one claimed index, given the probe's outcome
ParallelPingUpdate(r, result) ==
    LET r1 == setHealthy(r, result) IN
    IF ~result
    THEN LET r2 == incrementFailures(r1) IN
         IF r2.failureCount >= FailureThreshold THEN setAlive(r2, FALSE) ELSE r2
    ELSE setAlive(resetFailures(r1), TRUE)

\* PingServer::pingServer for a non-null server, given the probe's outcome
PingServerUpdate(r, result) ==
    LET r1 == setHealthy(r, result) IN
    IF ~result
    THEN LET r2 == incrementFailures(r1) IN
         IF r2.failureCount >= FailureThreshold THEN setAlive(r2, FALSE) ELSE r2
    ELSE setAlive(resetFailures(r1), TRUE)

\* parallelPingImplementation: every index of the list is claimed once;
\* results[i] is the outcome of the probe of servers[i]
RECURSIVE ParallelPing(_, _, _, _)
ParallelPing(srv, list, results, i) ==
    IF i > Len(list) THEN srv
    ELSE ParallelPing([srv EXCEPT ![list[i]] = ParallelPingUpdate(@, results[i])],
                      list, results, i + 1)

\* PingServer::pingServers: [srv, ok]
pingServers(srv, list, results) ==
    IF Len(list) = 0 THEN [srv |-> srv, ok |-> TRUE]
    ELSE [srv |-> ParallelPing(srv, list, results, 1),
          ok  |-> \A i \in 1..Len(list) : results[i]]

\* ------------------------------------------------------------------------
\* RoundRobinLoadBalancer::getNextServer
\* ------------------------------------------------------------------------
\* variant: the index is not reduced by the list size
ScanIndex_NoWrap(startIndex, i, serverCount) == startIndex + i

\* "size_t index = (startIndex + i) % serverCount"
ScanIndex(startIndex, i, serverCount) == (startIndex + i) % serverCount

\* the indices the scan loop reads the list at; server is read at an index
\* inside the list only
RECURSIVE IndicesRead(_, _, _, _)
IndicesRead(srv, list, startIndex, i) ==
    IF i >= Len(list) THEN {}
    ELSE LET index == ScanIndex(startIndex, i, Len(list)) IN
         IF index >= Len(list) THEN {index}
         ELSE IF srv[list[index + 1]].isAlive /\ srv[list[index + 1]].isHealthy
         THEN {index}
         ELSE {index} \cup IndicesRead(srv, list, startIndex, i + 1)

\* variant: the scan takes the first alive target without looking at isHealthy
RECURSIVE RRScan_FirstAlive(_, _, _, _, _)
RRScan_FirstAlive(srv, list, startIndex, i, fallbackServer) ==
    IF i >= Len(list)
    THEN [found |-> FALSE, index |-> 0, fallback |-> fallbackServer]
    ELSE LET index == (startIndex + i) % Len(list)
             s     == list[index + 1]
         IN IF srv[s].isAlive
            THEN [found |-> TRUE, index |-> index, fallback |-> fallbackServer]
            ELSE RRScan_FirstAlive(srv, list, startIndex, i + 1, fallbackServer)

\* the scan loop: [found, index, fallback]
RECURSIVE RRScan(_, _, _, _, _)
RRScan(srv, list, startIndex, i, fallbackServer) ==
    IF i >= Len(list)
    THEN [found |-> FALSE, index |-> 0, fallback |-> fallbackServer]
    ELSE LET index == ScanIndex(startIndex, i, Len(list))
             s     == list[index + 1]
         IN IF srv[s].isAlive
            THEN IF srv[s].isHealthy
                 THEN [found |-> TRUE, index |-> index, fallback |-> fallbackServer]
                 ELSE RRScan(srv, list, startIndex, i + 1,
                             IF fallbackServer = None THEN s ELSE fallbackServer)
            ELSE RRScan(srv, list, startIndex, i + 1, fallbackServer)

\* the loop that finds the fallback's index, from 0
RECURSIVE RRFallbackIndex(_, _, _)
RRFallbackIndex(list, fallbackServer, i) ==
    IF i >= Len(list) THEN Len(list)
    ELSE IF list[i + 1] = fallbackServer THEN i
    ELSE RRFallbackIndex(list, fallbackServer, i + 1)

\* variant: a healthy target is returned without the cursor moving past it
RRGetNextServer_NoAdvance(srv, list, cur) ==
    IF Len(list) = 0 THEN [server |-> None, index |-> cur]
    ELSE LET sc == RRScan(srv, list, cur, 0, None) IN
         IF sc.found
         THEN [server |-> list[sc.index + 1], index |-> sc.index]
         ELSE IF sc.fallback # None
         THEN [server |-> sc.fallback,
               index  |-> (RRFallbackIndex(list, sc.fallback, 0) + 1) % Len(list)]
         ELSE [server |-> None, index |-> cur]

\* variant: the fallback is returned without the cursor being stored
RRGetNextServer_FallbackKeepsCursor(srv, list, cur) ==
    IF Len(list) = 0 THEN [server |-> None, index |-> cur]
    ELSE LET sc == RRScan(srv, list, cur, 0, None) IN
         IF sc.found
         THEN [server |-> list[sc.index + 1], index |-> (sc.index + 1) % Len(list)]
         ELSE IF sc.fallback # None
         THEN [server |-> sc.fallback, index |-> cur]
         ELSE [server |-> None, index |-> cur]

\* result of the call: [server, index] (index: the cursor after the call)
RRGetNextServer(srv, list, cur) ==
    IF Len(list) = 0 THEN [server |-> None, index |-> cur]
    ELSE LET sc == RRScan(srv, list, cur, 0, None) IN
         IF sc.found
         THEN [server |-> list[sc.index + 1], index |-> (sc.index + 1) % Len(list)]
         ELSE IF sc.fallback # None
         THEN [server |-> sc.fallback,
               index  |-> (RRFallbackIndex(list, sc.fallback, 0) + 1) % Len(list)]
         ELSE [server |-> None, index |-> cur]

\* ------------------------------------------------------------------------
\* WeightedRoundRobinLoadBalancer
\* ------------------------------------------------------------------------
RECURSIVE Copies(_, _)
Copies(s, n) == IF n = 0 THEN <<>> ELSE <<s>> \o Copies(s, n - 1)

\* variant: the rebuild does not look at isAlive
RECURSIVE updateWeightedList_WithDead(_, _, _)
updateWeightedList_WithDead(srv, list, i) ==
    IF i > Len(list) THEN <<>>
    ELSE Copies(list[i], srv[list[i]].weight) \o updateWeightedList_WithDead(srv, list, i + 1)

RECURSIVE updateWeightedList(_, _, _)
updateWeightedList(srv, list, i) ==
    IF i > Len(list) THEN <<>>
    ELSE (IF srv[list[i]].isAlive THEN Copies(list[i], srv[list[i]].weight) ELSE <<>>)
         \o updateWeightedList(srv, list, i + 1)

RECURSIVE WRRScan(_, _, _, _, _)
WRRScan(srv, list, startIndex, i, fallbackServer) ==
    IF i >= Len(list)
    THEN [found |-> FALSE, index |-> 0, fallback |-> fallbackServer]
    ELSE LET index == ScanIndex(startIndex, i, Len(list))
             s     == list[index + 1]
         IN IF srv[s].isAlive
            THEN IF srv[s].isHealthy
                 THEN [found |-> TRUE, index |-> index, fallback |-> fallbackServer]
                 ELSE WRRScan(srv, list, startIndex, i + 1,
                              IF fallbackServer = None THEN s ELSE fallbackServer)
            ELSE WRRScan(srv, list, startIndex, i + 1, fallbackServer)

RECURSIVE WRRFallbackIndex(_, _, _)
WRRFallbackIndex(list, fallbackServer, i) ==
    IF i >= Len(list) THEN Len(list)
    ELSE IF list[i + 1] = fallbackServer THEN i
    ELSE WRRFallbackIndex(list, fallbackServer, i + 1)

\* the rebuild test at the head of getNextServer: the list after it
WRRRefreshed(srv, list, wlist) ==
    IF Len(wlist) = 0 THEN updateWeightedList(srv, list, 1) ELSE wlist

\* result of the call: [server, index, wlist]
WRRGetNextServer(srv, list, wlist0, cur) ==
    LET wlist == WRRRefreshed(srv, list, wlist0) IN
    IF Len(wlist) = 0 THEN [server |-> None, index |-> cur, wlist |-> wlist]
    ELSE LET sc == WRRScan(srv, wlist, cur, 0, None) IN
         IF sc.found
         THEN [server |-> wlist[sc.index + 1], index |-> (sc.index + 1) % Len(wlist),
               wlist |-> wlist]
         ELSE IF sc.fallback # None
         THEN [server |-> sc.fallback,
               index  |-> (WRRFallbackIndex(wlist, sc.fallback, 0) + 1) % Len(wlist),
               wlist  |-> wlist]
         ELSE [server |-> None, index |-> cur, wlist |-> wlist]

\* ------------------------------------------------------------------------
\* LoadBalancer::addServer / removeServer
\* ------------------------------------------------------------------------
\* std::find_if over the list for the address
HasAddress(list, a) == \E i \in 1..Len(list) : getServerAddress(list[i]) = a

\* variant: the duplicate test compares the objects, not their addresses
addServer_ByIdentity(list, s) ==
    IF s = None THEN [list |-> list, ok |-> FALSE]
    ELSE IF \E i \in 1..Len(list) : list[i] = s THEN [list |-> list, ok |-> FALSE]
    ELSE [list |-> Append(list, s), ok |-> TRUE]

\* [list, ok]
addServer(list, s) ==
    IF s = None THEN [list |-> list, ok |-> FALSE]
    ELSE IF HasAddress(list, getServerAddress(s)) THEN [list |-> list, ok |-> FALSE]
    ELSE [list |-> Append(list, s), ok |-> TRUE]

\* std::remove_if + erase
RECURSIVE EraseAddress(_, _)
EraseAddress(list, a) ==
    IF Len(list) = 0 THEN <<>>
    ELSE IF getServerAddress(Head(list)) = a THEN EraseAddress(Tail(list), a)
    ELSE <<Head(list)>> \o EraseAddress(Tail(list), a)

\* [list, ok]
removeServer(list, a) ==
    LET l2 == EraseAddress(list, a) IN [list |-> l2, ok |-> Len(l2) < Len(list)]

\* ------------------------------------------------------------------------
\* History bookkeeping
\* ------------------------------------------------------------------------
\* the run of getNextServer calls, extended by one call (the oldest dropped)
Extend(r, e) == IF Len(r) < MaxRun THEN Append(r, e) ELSE Append(Tail(r), e)

\* streak of one server after a probe with the given outcome
StreakAfter(k, rNew, result) ==
    IF result THEN (IF rNew.isAlive /\ rNew.failureCount = 0 THEN 0 ELSE -1)
    ELSE IF k >= 0 THEN k + 1 ELSE -1

RECURSIVE StreakAll(_, _, _, _, _)
StreakAll(st, srv, list, results, i) ==
    IF i > Len(list) THEN st
    ELSE LET s  == list[i]
             r2 == ParallelPingUpdate(srv[s], results[i])
         IN StreakAll([st EXCEPT ![s] = StreakAfter(@, r2, results[i])],
                      [srv EXCEPT ![s] = r2], list, results, i + 1)

\* history of revivals after the probe of s with this result; r is the
\* Server before the probe
RevivedAfter(rv, s, r, result) ==
    IF ~result THEN rv \ {s}
    ELSE IF ~r.isAlive THEN rv \cup {s} ELSE rv

RECURSIVE RevivedAll(_, _, _, _, _)
RevivedAll(rv, srv, list, results, i) ==
    IF i > Len(list) THEN rv
    ELSE LET s == list[i] IN
         RevivedAll(RevivedAfter(rv, s, srv[s], results[i]),
                    [srv EXCEPT ![s] = ParallelPingUpdate(srv[s], results[i])],
                    list, results, i + 1)

\* ------------------------------------------------------------------------
\* Initial states: the state after construction
\* ------------------------------------------------------------------------
\* the lists a constructor is called with (the same object or the same
\* address may be listed twice: the constructors do not look)
InitLists == UNION {[1..n -> Servers] : n \in 1..MaxInitLen}

InitHistory ==
    /\ op = "construct"
    /\ arg = None
    /\ ret = None
    /\ run = <<>>
    /\ removed = {}
    /\ added = {}
    /\ streak = [s \in Servers |-> 0]

\* LoadBalancer::LoadBalancer over freshly constructed Server objects
InitBase ==
    /\ serversList \in InitLists
    /\ server = [s \in Servers |-> NewServer(ConstructedWeight(s))]
    /\ InitHistory
    /\ InitAux
    /\ maxHealthCheckFailures = DefaultMaxHealthCheckFailures

\* RoundRobinLoadBalancer::RoundRobinLoadBalancer with a non-empty list
InitRR ==
    /\ lb = "RR"
    /\ InitBase
    /\ currentServerIndex = 0
    /\ weightedServersList = <<>>

\* WeightedRoundRobinLoadBalancer::WeightedRoundRobinLoadBalancer
InitWRR ==
    /\ lb = "WRR"
    /\ InitBase
    /\ currentServerIndex = 0
    /\ weightedServersList = updateWeightedList(server, serversList, 1)

Init == InitRR \/ InitWRR

\* ------------------------------------------------------------------------
\* Actions: one per call
\* ------------------------------------------------------------------------
GetNextServerRR ==
    /\ lb = "RR"
    /\ \E r \in {RRGetNextServer(server, serversList, currentServerIndex)} :
        /\ currentServerIndex' = r.index
        /\ ret' = r.server
        /\ run' = Extend(run, [c |-> currentServerIndex, r |-> r.server])
    /\ op' = "getNextServer"
    /\ arg' = None
    /\ UNCHANGED <<lb, serversList, weightedServersList, server, removed, added, streak>>
    /\ UNCHANGED aux

GetNextServerWRR ==
    /\ lb = "WRR"
    /\ \E r \in {WRRGetNextServer(server, serversList, weightedServersList,
                                  currentServerIndex)} :
        /\ currentServerIndex' = r.index
        /\ weightedServersList' = r.wlist
        /\ ret' = r.server
        /\ run' = Extend(run, [c |-> currentServerIndex, r |-> r.server])
    /\ op' = "getNextServer"
    /\ arg' = None
    /\ UNCHANGED <<lb, serversList, server, removed, added, streak>>
    /\ UNCHANGED aux

AddServerCall(s) ==
    /\ \E r \in {addServer(serversList, s)} :
        /\ serversList' = r.list
        /\ ret' = r.ok
        /\ removed' = IF r.ok THEN removed \ {getServerAddress(s)} ELSE removed
        /\ added' = IF r.ok THEN added \cup {s} ELSE added
    /\ op' = "addServer"
    /\ arg' = s
    /\ run' = <<>>
    /\ UNCHANGED <<lb, currentServerIndex, weightedServersList, server, streak>>

\* LoadBalancer::addServer as one call
AddServer(s) == AddServerCall(s) /\ UNCHANGED aux

RemoveServerCall(a) ==
    /\ \E r \in {removeServer(serversList, a)} :
        /\ serversList' = r.list
        /\ ret' = r.ok
        /\ removed' = IF r.ok THEN removed \cup {a} ELSE removed
        /\ added' = {s \in added : getServerAddress(s) # a}
    /\ op' = "removeServer"
    /\ arg' = a
    /\ run' = <<>>
    /\ UNCHANGED <<lb, currentServerIndex, weightedServersList, server, streak>>

\* LoadBalancer::removeServer as one call
RemoveServer(a) == RemoveServerCall(a) /\ UNCHANGED aux

\* LoadBalancer::performHealthCheck (the balancer's prober is always set);
\* results[i] is the outcome of the probe of _serversList[i]
PerformHealthCheckCall(results) ==
    /\ \E r \in {pingServers(server, serversList, results)} :
        /\ \A s \in Servers : r.srv[s].failureCount <= MaxFailureCount
        /\ server' = r.srv
        /\ ret' = r.ok
    /\ streak' = StreakAll(streak, server, serversList, results, 1)
    /\ op' = "performHealthCheck"
    /\ arg' = None
    /\ run' = <<>>
    /\ UNCHANGED <<lb, serversList, currentServerIndex, weightedServersList,
                   removed, added>>

PerformHealthCheck(results) == PerformHealthCheckCall(results) /\ UNCHANGED aux

\* PingServer::pingServer on one Server object
PingServer(s, result) ==
    /\ \E r \in {PingServerUpdate(server[s], result)} :
        /\ r.failureCount <= MaxFailureCount
        /\ server' = [server EXCEPT ![s] = r]
        /\ streak' = [streak EXCEPT ![s] = StreakAfter(@, r, result)]
    /\ ret' = result
    /\ op' = "pingServer"
    /\ arg' = s
    /\ run' = <<>>
    /\ UNCHANGED <<lb, serversList, currentServerIndex, weightedServersList,
                   removed, added>>
    /\ UNCHANGED aux

\* calls of the LoadBalancer base class
BaseCall ==
    \/ \E s \in Servers \cup {None} : AddServer(s)
    \/ \E a \in Addresses : RemoveServer(a)
    \/ \E results \in [1..Len(serversList) -> BOOLEAN] : PerformHealthCheck(results)

NextRR == GetNextServerRR \/ BaseCall

NextWRR == GetNextServerWRR \/ BaseCall

Next == GetNextServerRR \/ GetNextServerWRR \/ BaseCall

\* LoadBalancer::performHealthCheck with the revival history kept
PerformHealthCheckTracked(results) ==
    /\ PerformHealthCheckCall(results)
    /\ revived' = RevivedAll(revived, server, serversList, results, 1)
    /\ UNCHANGED notRevived

\* calls on either balancer, revivals followed
NextRevive ==
    \/ GetNextServerRR
    \/ GetNextServerWRR
    \/ \E s \in Servers \cup {None} : AddServer(s)
    \/ \E a \in Addresses : RemoveServer(a)
    \/ \E results \in [1..Len(serversList) -> BOOLEAN] : PerformHealthCheckTracked(results)

\* WeightedRoundRobinLoadBalancer::getNextServer with the history of its
\* rebuilds kept: whether this call ran updateWeightedList, and whether the
\* list it found, and the list it leaves, was built with no server alive
GetNextServerWRRTracked ==
    /\ lb = "WRR"
    /\ \E r \in {WRRGetNextServer(server, serversList, weightedServersList,
                                  currentServerIndex)} :
        /\ currentServerIndex' = r.index
        /\ weightedServersList' = r.wlist
        /\ ret' = r.server
        /\ run' = Extend(run, [c |-> currentServerIndex, r |-> r.server])
    /\ rebuild' = IF Len(weightedServersList) = 0
                  THEN [last      |-> TRUE,
                        wasDead   |-> rebuild.builtDead,
                        builtDead |-> \A i \in 1..Len(serversList) :
                                          ~server[serversList[i]].isAlive]
                  ELSE [rebuild EXCEPT !.last = FALSE]
    /\ op' = "getNextServer"
    /\ arg' = None
    /\ UNCHANGED <<lb, serversList, server, removed, added, streak>>
    /\ UNCHANGED notRebuild

\* calls on a weighted balancer, rebuilds followed
NextRebuild ==
    \/ GetNextServerWRRTracked
    \/ \E s \in Servers \cup {None} : AddServer(s)
    \/ \E a \in Addresses : RemoveServer(a)
    \/ \E results \in [1..Len(serversList) -> BOOLEAN] : PerformHealthCheck(results)

\* a weighted balancer, rebuilds followed
SpecRebuild == InitWRR /\ [][NextRebuild]_vars

\* getNextServer of either class with the indices of its scan recorded; a
\* read past the end of the vector has no defined outcome: any target or
\* nullptr is returned and any cursor stored
GetNextServerIndexed ==
    LET list == IF lb = "RR" THEN serversList
                ELSE WRRRefreshed(server, serversList, weightedServersList)
        indices == IndicesRead(server, list, currentServerIndex, 0)
    IN  /\ reads' = [indices |-> indices, size |-> Len(list)]
        /\ weightedServersList' = IF lb = "RR" THEN weightedServersList ELSE list
        /\ IF \A index \in indices : index < Len(list)
           THEN \E r \in {IF lb = "RR"
                          THEN RRGetNextServer(server, serversList, currentServerIndex)
                          ELSE [server |-> WRRGetNextServer(server, serversList,
                                               weightedServersList,
                                               currentServerIndex).server,
                                index  |-> WRRGetNextServer(server, serversList,
                                               weightedServersList,
                                               currentServerIndex).index]} :
                    /\ currentServerIndex' = r.index
                    /\ ret' = r.server
                    /\ run' = Extend(run, [c |-> currentServerIndex, r |-> r.server])
           ELSE /\ currentServerIndex' \in 0..Len(list)
                /\ ret' \in Servers \cup {None}
                /\ run' = <<>>
        /\ op' = "getNextServer"
        /\ arg' = None
        /\ UNCHANGED <<lb, serversList, server, removed, added, streak>>
        /\ UNCHANGED notIndex

\* calls on a balancer of either class, the reads of the scan followed
NextIndex ==
    \/ GetNextServerIndexed
    \/ \E s \in Servers \cup {None} : AddServer(s)
    \/ \E a \in Addresses : RemoveServer(a)
    \/ \E results \in [1..Len(serversList) -> BOOLEAN] : PerformHealthCheck(results)

\* a balancer of either class, the reads of the scan followed
SpecIndex == Init /\ [][NextIndex]_vars

\* LoadBalancer::setMaxHealthCheckFailures
SetMaxHealthCheckFailures(failures) ==
    /\ maxHealthCheckFailures' = failures
    /\ op' = "setMaxHealthCheckFailures"
    /\ arg' = None
    /\ ret' = None
    /\ UNCHANGED <<balancerVars, server, run, removed, added, streak>>
    /\ UNCHANGED notConfig

\* health checks under a configuration that changes
NextConfig ==
    \/ \E failures \in 0..MaxConfiguredFailures : SetMaxHealthCheckFailures(failures)
    \/ \E results \in [1..Len(serversList) -> BOOLEAN] : PerformHealthCheck(results)

\* either constructor, called with any maxHealthCheckFailures argument
InitConfig ==
    /\ lb \in {"RR", "WRR"}
    /\ serversList \in InitLists
    /\ server = [s \in Servers |-> NewServer(ConstructedWeight(s))]
    /\ InitHistory
    /\ InitAux
    /\ maxHealthCheckFailures \in 0..MaxConfiguredFailures
    /\ currentServerIndex = 0
    /\ weightedServersList =
           IF lb = "WRR" THEN updateWeightedList(server, serversList, 1) ELSE <<>>

\* a balancer of either class, configured and health-checked
SpecConfig == InitConfig /\ [][NextConfig]_vars

\* the prober alone, on the list and on single servers
NextProbe ==
    \/ \E results \in [1..Len(serversList) -> BOOLEAN] : PerformHealthCheck(results)
    \/ \E s \in Servers, result \in BOOLEAN : PingServer(s, result)

\* a balancer of either class
Spec == Init /\ [][Next]_vars

\* a balancer of either class, revivals followed
SpecRevive == Init /\ [][NextRevive]_vars

\* a round-robin balancer
SpecRR == InitRR /\ [][NextRR]_vars

\* a weighted round-robin balancer
SpecWRR == InitWRR /\ [][NextWRR]_vars

\* the prober working on a fixed list
SpecProbe == InitRR /\ [][NextProbe]_vars

\* ------------------------------------------------------------------------
\* PingServer::parallelPingImplementation, one atomic operation per step
\* ------------------------------------------------------------------------
\* the server lists pingServers is called with in the step-wise model
PingTargets == {"s1", "s2"}

PingLists == UNION {[1..n -> PingTargets] : n \in 0..MaxPingLen}

\* variant: the claimed index is read without the counter moving on
fetch_add_Stale(n) == [old |-> n, new |-> n]

\* nextIndex.fetch_add(1): the value before, the value after
fetch_add(n) == [old |-> n, new |-> n + 1]

\* a worker at the head of its loop: the locals of a turn are out of scope
AtLoopHead(pc) == [pc |-> pc, index |-> 0, result |-> FALSE, count |-> 0]

\* the Server object worker w has claimed
WorkerServer(w) == pp.servers[workers[w].index + 1]

\* PingServer::pingServers and parallelPingImplementation up to the launch of
\* the workers; size is _threadPoolSize
PingServersCall(list, size) ==
    /\ pp.state \in {"idle", "returned"}
    /\ IF Len(list) = 0
       THEN /\ pp' = [pp EXCEPT !.state = "returned", !.servers = list,
                                !.poolSize = 0, !.ret = TRUE]
            /\ UNCHANGED workers
       ELSE /\ pp' = [state |-> "running", servers |-> list,
                      poolSize |-> IF size < Len(list) THEN size ELSE Len(list),
                      nextIndex |-> 0, allSuccessful |-> TRUE, ret |-> pp.ret]
            /\ workers' = [w \in Workers |->
                              [pc     |-> IF w <= (IF size < Len(list) THEN size ELSE Len(list))
                                          THEN "fetch_add" ELSE "off",
                               index  |-> 0, result |-> FALSE, count |-> 0]]
    /\ probes' = [i \in 1..MaxPingLen |-> 0]
    /\ UNCHANGED server

\* size_t index = nextIndex.fetch_add(1); if (index >= serverCount) break;
WorkerFetch(w) ==
    /\ pp.state = "running"
    /\ workers[w].pc = "fetch_add"
    /\ \E f \in {fetch_add(pp.nextIndex)} :
        /\ pp' = [pp EXCEPT !.nextIndex = f.new]
        /\ workers' = [workers EXCEPT ![w] =
                          IF f.old >= Len(pp.servers)
                          THEN AtLoopHead("done")
                          ELSE [@ EXCEPT !.pc = "ping", !.index = f.old]]
    /\ UNCHANGED <<server, probes>>

\* bool result = _pingImplementation(server->getServerAddress(), timeout);
WorkerPing(w, result) ==
    /\ workers[w].pc = "ping"
    /\ result \/ server[WorkerServer(w)].failureCount < MaxFailureCount
    /\ workers' = [workers EXCEPT ![w] = [@ EXCEPT !.pc = "setHealthy", !.result = result]]
    /\ probes' = [probes EXCEPT ![workers[w].index + 1] = @ + 1]
    /\ UNCHANGED <<server, pp>>

\* Server::setHealthy: _isHealthy.store(isHealthy)
WorkerSetHealthy(w) ==
    /\ workers[w].pc = "setHealthy"
    /\ server' = [server EXCEPT ![WorkerServer(w)].isHealthy = workers[w].result]
    /\ workers' = [workers EXCEPT ![w].pc =
                      IF workers[w].result THEN "setHealthy_resetFailures"
                      ELSE "incrementFailures"]
    /\ UNCHANGED <<pp, probes>>

\* Server::setHealthy: if (isHealthy) resetFailures()
WorkerSetHealthyReset(w) ==
    /\ workers[w].pc = "setHealthy_resetFailures"
    /\ server' = [server EXCEPT ![WorkerServer(w)] = resetFailures(@)]
    /\ workers' = [workers EXCEPT ![w].pc = "resetFailures"]
    /\ UNCHANGED <<pp, probes>>

\* server->incrementFailures()
WorkerIncrementFailures(w) ==
    /\ workers[w].pc = "incrementFailures"
    /\ server' = [server EXCEPT ![WorkerServer(w)] = incrementFailures(@)]
    /\ workers' = [workers EXCEPT ![w].pc = "getFailureCount"]
    /\ UNCHANGED <<pp, probes>>

\* if (server->getFailureCount() >= 3)
WorkerGetFailureCount(w) ==
    /\ workers[w].pc = "getFailureCount"
    /\ workers' = [workers EXCEPT ![w] =
                      [@ EXCEPT !.count = server[WorkerServer(w)].failureCount,
                                !.pc = IF server[WorkerServer(w)].failureCount >= FailureThreshold
                                       THEN "setAlive_false" ELSE "allSuccessful_store"]]
    /\ UNCHANGED <<server, pp, probes>>

\* server->setAlive(false)
WorkerSetAliveFalse(w) ==
    /\ workers[w].pc = "setAlive_false"
    /\ server' = [server EXCEPT ![WorkerServer(w)] = setAlive(@, FALSE)]
    /\ workers' = [workers EXCEPT ![w].pc = "allSuccessful_store"]
    /\ UNCHANGED <<pp, probes>>

\* allSuccessful.store(false), then the next turn of the loop
WorkerStoreFailed(w) ==
    /\ workers[w].pc = "allSuccessful_store"
    /\ pp' = [pp EXCEPT !.allSuccessful = FALSE]
    /\ workers' = [workers EXCEPT ![w] = AtLoopHead("fetch_add")]
    /\ UNCHANGED <<server, probes>>

\* server->resetFailures()
WorkerResetFailures(w) ==
    /\ workers[w].pc = "resetFailures"
    /\ server' = [server EXCEPT ![WorkerServer(w)] = resetFailures(@)]
    /\ workers' = [workers EXCEPT ![w].pc = "setAlive_true"]
    /\ UNCHANGED <<pp, probes>>

\* server->setAlive(true), then the next turn of the loop
WorkerSetAliveTrue(w) ==
    /\ workers[w].pc = "setAlive_true"
    /\ server' = [server EXCEPT ![WorkerServer(w)] = setAlive(@, TRUE)]
    /\ workers' = [workers EXCEPT ![w] = AtLoopHead("fetch_add")]
    /\ UNCHANGED <<pp, probes>>

\* any step of worker w
WorkerStep(w) ==
    \/ WorkerFetch(w)
    \/ \E result \in BOOLEAN : WorkerPing(w, result)
    \/ WorkerSetHealthy(w)
    \/ WorkerSetHealthyReset(w)
    \/ WorkerIncrementFailures(w)
    \/ WorkerGetFailureCount(w)
    \/ WorkerSetAliveFalse(w)
    \/ WorkerStoreFailed(w)
    \/ WorkerResetFailures(w)
    \/ WorkerSetAliveTrue(w)

\* variant: the call reports success whatever the workers stored
allSuccessful_load_True(p) == TRUE

\* return allSuccessful.load();
allSuccessful_load(p) == p.allSuccessful

\* every launched worker has left its loop
WorkersDone == \A w \in Workers : workers[w].pc \in {"off", "done"}

\* for (auto& future : futures) future.wait(); return allSuccessful.load();
PingServersReturn ==
    /\ pp.state = "running"
    /\ WorkersDone
    /\ pp' = [pp EXCEPT !.state = "returned", !.ret = allSuccessful_load(pp)]
    /\ UNCHANGED <<server, workers, probes>>

\* a PingServer used on its own: no balancer object
InitPing ==
    /\ lb = "none"
    /\ serversList = <<>>
    /\ currentServerIndex = 0
    /\ weightedServersList = <<>>
    /\ server = [s \in Servers |-> NewServer(ConstructedWeight(s))]
    /\ InitHistory
    /\ InitAux
    /\ maxHealthCheckFailures = DefaultMaxHealthCheckFailures

NextPing ==
    \/ /\ \E list \in PingLists, size \in 1..MaxPoolSize : PingServersCall(list, size)
       /\ UNCHANGED <<balancerVars, historyVars, notPing>>
    \/ /\ \E w \in Workers : WorkerStep(w)
       /\ UNCHANGED <<balancerVars, historyVars, notPing>>
    \/ /\ PingServersReturn
       /\ UNCHANGED <<balancerVars, historyVars, notPing>>

\* PingServer::pingServers with its workers interleaved
SpecPing == InitPing /\ [][NextPing]_vars

\* the same steps, the results of the probes of a call followed
NextPingResult ==
    \/ /\ \E list \in PingLists, size \in 1..MaxPoolSize : PingServersCall(list, size)
       /\ anyFailed' = FALSE
       /\ UNCHANGED <<balancerVars, historyVars, notPingResult>>
    \/ /\ \E w \in Workers, result \in BOOLEAN :
              /\ WorkerPing(w, result)
              /\ anyFailed' = (anyFailed \/ ~result)
       /\ UNCHANGED <<balancerVars, historyVars, notPingResult>>
    \/ /\ \E w \in Workers : workers[w].pc # "ping" /\ WorkerStep(w)
       /\ UNCHANGED <<balancerVars, historyVars, notPingResult, anyFailed>>
    \/ /\ PingServersReturn
       /\ UNCHANGED <<balancerVars, historyVars, notPingResult, anyFailed>>

SpecPingResult == InitPing /\ [][NextPingResult]_vars

\* ------------------------------------------------------------------------
\* RoundRobinLoadBalancer::getNextServer on several threads.  The shared lock
\* admits every caller; the cursor is read by one atomic load and written by
\* one atomic store.
\* ------------------------------------------------------------------------
\* no caller is between its load and its store
Quiescent == \A t \in Callers : callers[t].pc = "idle"

\* lines 366-374: shared_lock, the empty test, _currentServerIndex.load
SelectLoad(t) ==
    /\ lb = "RR"
    /\ callers[t].pc = "idle"
    /\ batch.done + Cardinality({u \in Callers : callers[u].pc = "loaded"}) < MaxBatch
    /\ Len(serversList) > 0
    /\ callers' = [callers EXCEPT ![t] = [pc |-> "loaded", startIndex |-> currentServerIndex]]
    /\ UNCHANGED <<currentServerIndex, server, batch>>

\* lines 377-406: the scan from the loaded index, the store, the return
SelectStore(t) ==
    /\ callers[t].pc = "loaded"
    /\ \E r \in {RRGetNextServer(server, serversList, callers[t].startIndex)} :
        /\ currentServerIndex' = IF r.server = None THEN currentServerIndex ELSE r.index
        /\ batch' = [batch EXCEPT !.done = @ + 1, !.rets = Append(@, r.server)]
    /\ callers' = [callers EXCEPT ![t] = [pc |-> "idle", startIndex |-> 0]]
    /\ UNCHANGED server

\* LoadBalancer::performHealthCheck between two batches of calls
HealthCheckBetween(results) ==
    /\ Quiescent
    /\ \E r \in {pingServers(server, serversList, results)} :
        /\ \A s \in Servers : r.srv[s].failureCount <= MaxFailureCount
        /\ server' = r.srv
    /\ batch' = [base |-> currentServerIndex, done |-> 0, rets |-> <<>>]
    /\ UNCHANGED <<currentServerIndex, callers>>

NextSelect ==
    \/ /\ \E t \in Callers : SelectLoad(t)
       /\ UNCHANGED <<lb, serversList, weightedServersList, historyVars, notSelect>>
    \/ /\ \E t \in Callers : SelectStore(t)
       /\ UNCHANGED <<lb, serversList, weightedServersList, historyVars, notSelect>>
    \/ /\ \E results \in [1..Len(serversList) -> BOOLEAN] : HealthCheckBetween(results)
       /\ UNCHANGED <<lb, serversList, weightedServersList, historyVars, notSelect>>

\* a round-robin balancer with concurrent callers of getNextServer
SpecSelect == InitRR /\ [][NextSelect]_vars

\* ------------------------------------------------------------------------
\* LoadBalancer::_serversMutex: performHealthCheck holds it shared for the
\* whole of pingServers; addServer and removeServer take it exclusively.
\* ------------------------------------------------------------------------
\* lines 128-129 up to the launch of the probes: std::shared_lock taken,
\* pingServers called on a non-empty pool, its probes on the network
HealthCheckBegin ==
    /\ lb \in {"RR", "WRR"}
    /\ "healthCheck" \notin serversMutex
    /\ Len(serversList) > 0
    /\ serversMutex' = serversMutex \cup {"healthCheck"}
    /\ UNCHANGED <<mutator, server, historyVars>>

\* the probes have come back with results, pingServers returns, the
\* shared_lock goes out of scope
HealthCheckEnd(results) ==
    /\ "healthCheck" \in serversMutex
    /\ \E r \in {pingServers(server, serversList, results)} :
        /\ \A s \in Servers : r.srv[s].failureCount <= MaxFailureCount
        /\ server' = r.srv
        /\ ret' = r.ok
    /\ streak' = StreakAll(streak, server, serversList, results, 1)
    /\ op' = "performHealthCheck"
    /\ arg' = None
    /\ run' = <<>>
    /\ serversMutex' = serversMutex \ {"healthCheck"}
    /\ UNCHANGED <<mutator, removed, added>>

\* variant: the exclusive lock is granted beside a shared holder
unique_lock_Barging(mutex) == TRUE

\* std::unique_lock<std::shared_mutex> is granted: no thread holds the mutex
unique_lock(mutex) == mutex = {}

\* a thread enters addServer or removeServer and reaches the std::unique_lock
MutatorEnter(call, a) ==
    /\ mutator.pc = "idle"
    /\ mutator' = [pc |-> "unique_lock", call |-> call, arg |-> a]
    /\ UNCHANGED <<serversMutex, server, historyVars>>

\* the unique_lock is granted when no thread holds the lock; the rest of the
\* call runs under it
MutatorRun ==
    /\ mutator.pc = "unique_lock"
    /\ unique_lock(serversMutex)
    /\ IF mutator.call = "addServer" THEN AddServerCall(mutator.arg)
       ELSE RemoveServerCall(mutator.arg)
    /\ mutator' = [pc |-> "idle", call |-> "none", arg |-> None]
    /\ UNCHANGED serversMutex

NextLock ==
    \/ /\ HealthCheckBegin
       /\ UNCHANGED <<balancerVars, notLock>>
    \/ /\ \E results \in [1..Len(serversList) -> BOOLEAN] : HealthCheckEnd(results)
       /\ UNCHANGED <<balancerVars, notLock>>
    \/ /\ \E s \in Servers : MutatorEnter("addServer", s)
       /\ UNCHANGED <<balancerVars, notLock>>
    \/ /\ \E a \in Addresses : MutatorEnter("removeServer", a)
       /\ UNCHANGED <<balancerVars, notLock>>
    \/ /\ MutatorRun
       /\ UNCHANGED notLock

\* a balancer with a health check and a pool mutation on two threads
SpecLock == Init /\ [][NextLock]_vars

\* ------------------------------------------------------------------------
\* PingServer::startBackgroundPing, stopBackgroundPing and pingWorker; one
\* thread controls the prober, each std::async task is a loop thread
\* ------------------------------------------------------------------------
\* the loop threads that have been launched and have not returned
LiveLoops(loops) == {l \in Loops : loops[l].pc \notin {"none", "exited"}}

\* a std::future is ready, or has no state to wait for
TaskDone(task, loops) == IF task = 0 THEN TRUE ELSE loops[task].pc = "exited"

\* variant: stopBackgroundPing returns without waiting for the task
StopMayReturn_NoWait(task, loops) == TRUE

\* if (_pingTask.valid()) _pingTask.wait();
StopMayReturn(task, loops) == TaskDone(task, loops)

\* the controlling thread returns from a call
Returned == [pc |-> "idle", call |-> "none", servers |-> <<>>, task |-> 0]

\* startBackgroundPing, line 313: if (_isRunning.load()) stopBackgroundPing();
StartBackgroundEnter(list) ==
    /\ ctl.pc = "idle"
    /\ ctl' = [pc |-> IF isRunning THEN "stop_store" ELSE "start_store",
               call |-> "startBackgroundPing", servers |-> list, task |-> 0]
    /\ UNCHANGED <<backgroundVars, server, historyVars>>

\* a call of stopBackgroundPing
StopBackgroundEnter ==
    /\ ctl.pc = "idle"
    /\ ctl' = [pc |-> "stop_store", call |-> "stopBackgroundPing",
               servers |-> <<>>, task |-> 0]
    /\ UNCHANGED <<backgroundVars, server, historyVars>>

\* line 331: _isRunning.store(false)
StopBackgroundStore ==
    /\ ctl.pc = "stop_store"
    /\ isRunning' = FALSE
    /\ ctl' = [ctl EXCEPT !.pc = "stop_wait"]
    /\ UNCHANGED <<pingTask, pingLoops, server, historyVars>>

\* lines 333-339: the wait is over; stopBackgroundPing returns, to its
\* caller or into startBackgroundPing
StopBackgroundWait ==
    /\ ctl.pc = "stop_wait"
    /\ StopMayReturn(pingTask, pingLoops)
    /\ IF ctl.call = "stopBackgroundPing"
       THEN /\ ctl' = Returned
            /\ op' = "stopBackgroundPing"
            /\ arg' = None
            /\ ret' = None
            /\ UNCHANGED <<run, removed, added, streak>>
       ELSE /\ ctl' = [ctl EXCEPT !.pc = "start_store"]
            /\ UNCHANGED historyVars
    /\ UNCHANGED <<backgroundVars, server>>

\* line 317: _isRunning.store(true)
StartBackgroundStore ==
    /\ ctl.pc = "start_store"
    /\ isRunning' = TRUE
    /\ ctl' = [ctl EXCEPT !.pc = "start_async"]
    /\ UNCHANGED <<pingTask, pingLoops, server, historyVars>>

\* lines 320-325: std::async launches pingWorker on the copy of the list
StartBackgroundAsync(l) ==
    /\ ctl.pc = "start_async"
    /\ pingLoops[l].pc \in {"none", "exited"}
    /\ l # pingTask
    /\ pingLoops' = [pingLoops EXCEPT ![l] = [pc |-> "test", servers |-> ctl.servers]]
    /\ ctl' = [ctl EXCEPT !.pc = "start_assign", !.task = l]
    /\ UNCHANGED <<isRunning, pingTask, server, historyVars>>

\* line 323: the new future is moved into _pingTask; releasing the state of
\* an earlier std::async task blocks until that task has finished
StartBackgroundAssign ==
    /\ ctl.pc = "start_assign"
    /\ TaskDone(pingTask, pingLoops)
    /\ pingTask' = ctl.task
    /\ ctl' = Returned
    /\ op' = "startBackgroundPing"
    /\ arg' = None
    /\ ret' = None
    /\ UNCHANGED <<isRunning, pingLoops, server, run, removed, added, streak>>

\* pingWorker, line 351: while (_isRunning.load())
PingWorkerTest(l) ==
    /\ pingLoops[l].pc = "test"
    /\ pingLoops' = [pingLoops EXCEPT ![l].pc = IF isRunning THEN "pingServers" ELSE "exited"]
    /\ UNCHANGED <<isRunning, pingTask, ctl, server, historyVars>>

\* variant: the task looks at the caller's vector instead of its copy
serversCopy_Live(l) == callerList

\* the copy captured by the task, line 323: [this, serversCopy]
serversCopy(l) == pingLoops[l].servers

\* pingWorker, line 353: pingServers(servers) runs its probes and returns
PingWorkerPing(l, results) ==
    /\ pingLoops[l].pc = "pingServers"
    /\ Len(results) = Len(serversCopy(l))
    /\ \E r \in {pingServers(server, serversCopy(l), results)} :
        /\ \A s \in Servers : r.srv[s].failureCount <= MaxFailureCount
        /\ server' = r.srv
    /\ pingLoops' = [pingLoops EXCEPT ![l].pc = "sleep_for"]
    /\ UNCHANGED <<isRunning, pingTask, ctl, historyVars>>

\* pingWorker, line 356: the sleep is over
PingWorkerSleep(l) ==
    /\ pingLoops[l].pc = "sleep_for"
    /\ pingLoops' = [pingLoops EXCEPT ![l].pc = "test"]
    /\ UNCHANGED <<isRunning, pingTask, ctl, server, historyVars>>

\* the lists startBackgroundPing is called with
BackgroundLists == UNION {[1..n -> PingTargets] : n \in 0..MaxInitLen}

NextBackground ==
    \/ /\ \E list \in BackgroundLists : StartBackgroundEnter(list)
       /\ UNCHANGED <<balancerVars, notBackground>>
    \/ /\ StopBackgroundEnter
       /\ UNCHANGED <<balancerVars, notBackground>>
    \/ /\ StopBackgroundStore
       /\ UNCHANGED <<balancerVars, notBackground>>
    \/ /\ StopBackgroundWait
       /\ UNCHANGED <<balancerVars, notBackground>>
    \/ /\ StartBackgroundStore
       /\ UNCHANGED <<balancerVars, notBackground>>
    \/ /\ \E l \in Loops : StartBackgroundAsync(l)
       /\ UNCHANGED <<balancerVars, notBackground>>
    \/ /\ StartBackgroundAssign
       /\ UNCHANGED <<balancerVars, notBackground>>
    \/ /\ \E l \in Loops : PingWorkerTest(l)
       /\ UNCHANGED <<balancerVars, notBackground>>
    \/ /\ \E l \in Loops : \E results \in [1..Len(pingLoops[l].servers) -> BOOLEAN] :
              PingWorkerPing(l, results)
       /\ UNCHANGED <<balancerVars, notBackground>>
    \/ /\ \E l \in Loops : PingWorkerSleep(l)
       /\ UNCHANGED <<balancerVars, notBackground>>

\* a PingServer with its background loop and one controlling thread
SpecBackground == InitPing /\ [][NextBackground]_vars

\* the caller adds a target to its own vector, between two calls
CallerPushBack(s) ==
    /\ ctl.pc = "idle"
    /\ Len(callerList) < MaxInitLen
    /\ callerList' = Append(callerList, s)
    /\ UNCHANGED <<probed, backgroundVars, ctl, server, historyVars>>

\* a cycle of the loop, the list it pinged remembered
PingWorkerPingTracked(l, results) ==
    /\ PingWorkerPing(l, results)
    /\ probed' = [loop |-> l, servers |-> serversCopy(l)]
    /\ UNCHANGED callerList

NextSnapshot ==
    \/ /\ \E s \in PingTargets : CallerPushBack(s)
       /\ UNCHANGED <<balancerVars, notSnapshot>>
    \/ /\ StartBackgroundEnter(callerList)
       /\ UNCHANGED <<balancerVars, notSnapshot, snapshotVars>>
    \/ /\ StopBackgroundEnter
       /\ UNCHANGED <<balancerVars, notSnapshot, snapshotVars>>
    \/ /\ StopBackgroundStore
       /\ UNCHANGED <<balancerVars, notSnapshot, snapshotVars>>
    \/ /\ StopBackgroundWait
       /\ UNCHANGED <<balancerVars, notSnapshot, snapshotVars>>
    \/ /\ StartBackgroundStore
       /\ UNCHANGED <<balancerVars, notSnapshot, snapshotVars>>
    \/ /\ \E l \in Loops : StartBackgroundAsync(l)
       /\ UNCHANGED <<balancerVars, notSnapshot, snapshotVars>>
    \/ /\ StartBackgroundAssign
       /\ UNCHANGED <<balancerVars, notSnapshot, snapshotVars>>
    \/ /\ \E l \in Loops : PingWorkerTest(l)
       /\ UNCHANGED <<balancerVars, notSnapshot, snapshotVars>>
    \/ /\ \E l \in Loops : \E results \in UNION {[1..n -> BOOLEAN] : n \in 0..MaxInitLen} :
              PingWorkerPingTracked(l, results)
       /\ UNCHANGED <<balancerVars, notSnapshot>>
    \/ /\ \E l \in Loops : PingWorkerSleep(l)
       /\ UNCHANGED <<balancerVars, notSnapshot, snapshotVars>>

\* a PingServer with its background loop, started on a vector its caller
\* goes on changing
SpecSnapshot == InitPing /\ [][NextSnapshot]_vars

\* ------------------------------------------------------------------------
\* LoadBalancer::startHealthChecks, stopHealthChecks and the loop they run;
\* one thread controls the balancer, each std::async task is a loop thread
\* ------------------------------------------------------------------------
\* variant: the exchange succeeds whatever the flag holds
compare_exchange_Always(current, expected, desired) == [ok |-> TRUE, value |-> desired]

\* std::atomic<bool>::compare_exchange_strong
compare_exchange_strong(current, expected, desired) ==
    [ok |-> current = expected, value |-> IF current = expected THEN desired ELSE current]

\* lines 223-226: the exchange; "already running" returns at once
StartHealthChecksEnter ==
    /\ lb \in {"RR", "WRR"}
    /\ ctl.pc = "idle"
    /\ \E x \in {compare_exchange_strong(healthCheckRunning, FALSE, TRUE)} :
        /\ healthCheckRunning' = x.value
        /\ IF x.ok
           THEN /\ ctl' = [pc |-> "health_async", call |-> "startHealthChecks",
                           servers |-> <<>>, task |-> 0]
                /\ UNCHANGED historyVars
           ELSE /\ ctl' = Returned
                /\ op' = "startHealthChecks"
                /\ arg' = None
                /\ ret' = FALSE
                /\ UNCHANGED <<run, removed, added, streak>>
    /\ UNCHANGED <<healthCheckTask, healthLoops, server>>

\* lines 228-248: std::async launches the loop
StartHealthChecksAsync(l) ==
    /\ ctl.pc = "health_async"
    /\ healthLoops[l].pc \in {"none", "exited"}
    /\ l # healthCheckTask
    /\ healthLoops' = [healthLoops EXCEPT ![l].pc = "test"]
    /\ ctl' = [ctl EXCEPT !.pc = "health_assign", !.task = l]
    /\ UNCHANGED <<healthCheckRunning, healthCheckTask, server, historyVars>>

\* line 235: the new future is moved into _healthCheckTask; releasing the
\* state of an earlier std::async task blocks until that task has finished
StartHealthChecksAssign ==
    /\ ctl.pc = "health_assign"
    /\ TaskDone(healthCheckTask, healthLoops)
    /\ healthCheckTask' = ctl.task
    /\ ctl' = Returned
    /\ op' = "startHealthChecks"
    /\ arg' = None
    /\ ret' = TRUE
    /\ UNCHANGED <<healthCheckRunning, healthLoops, server, run, removed, added, streak>>

\* a call of stopHealthChecks
StopHealthChecksEnter ==
    /\ lb \in {"RR", "WRR"}
    /\ ctl.pc = "idle"
    /\ ctl' = [pc |-> "health_stop_store", call |-> "stopHealthChecks",
               servers |-> <<>>, task |-> 0]
    /\ UNCHANGED <<healthLoopVars, server, historyVars>>

\* line 254: _healthCheckRunning.store(false)
StopHealthChecksStore ==
    /\ ctl.pc = "health_stop_store"
    /\ healthCheckRunning' = FALSE
    /\ ctl' = [ctl EXCEPT !.pc = "health_stop_wait"]
    /\ UNCHANGED <<healthCheckTask, healthLoops, server, historyVars>>

\* lines 256-262: if (_healthCheckTask.valid()) _healthCheckTask.wait(); return
StopHealthChecksWait ==
    /\ ctl.pc = "health_stop_wait"
    /\ TaskDone(healthCheckTask, healthLoops)
    /\ ctl' = Returned
    /\ op' = "stopHealthChecks"
    /\ arg' = None
    /\ ret' = None
    /\ UNCHANGED <<healthLoopVars, server, run, removed, added, streak>>

\* line 236: while (_healthCheckRunning.load(std::memory_order_acquire))
HealthLoopTest(l) ==
    /\ healthLoops[l].pc = "test"
    /\ healthLoops' = [healthLoops EXCEPT ![l].pc =
                          IF healthCheckRunning THEN "performHealthCheck" ELSE "exited"]
    /\ UNCHANGED <<healthCheckRunning, healthCheckTask, ctl, server, historyVars>>

\* line 237: this->performHealthCheck() runs its probes and returns
HealthLoopCheck(l, results) ==
    /\ healthLoops[l].pc = "performHealthCheck"
    /\ \E r \in {pingServers(server, serversList, results)} :
        /\ \A s \in Servers : r.srv[s].failureCount <= MaxFailureCount
        /\ server' = r.srv
    /\ healthLoops' = [healthLoops EXCEPT ![l].pc = "sleep_for"]
    /\ UNCHANGED <<healthCheckRunning, healthCheckTask, ctl, historyVars>>

\* lines 239-246: the interval is read and the sleep is over
HealthLoopSleep(l) ==
    /\ healthLoops[l].pc = "sleep_for"
    /\ healthLoops' = [healthLoops EXCEPT ![l].pc = "test"]
    /\ UNCHANGED <<healthCheckRunning, healthCheckTask, ctl, server, historyVars>>

NextHealthLoop ==
    \/ /\ StartHealthChecksEnter
       /\ UNCHANGED <<balancerVars, notHealthLoop>>
    \/ /\ \E l \in Loops : StartHealthChecksAsync(l)
       /\ UNCHANGED <<balancerVars, notHealthLoop>>
    \/ /\ StartHealthChecksAssign
       /\ UNCHANGED <<balancerVars, notHealthLoop>>
    \/ /\ StopHealthChecksEnter
       /\ UNCHANGED <<balancerVars, notHealthLoop>>
    \/ /\ StopHealthChecksStore
       /\ UNCHANGED <<balancerVars, notHealthLoop>>
    \/ /\ StopHealthChecksWait
       /\ UNCHANGED <<balancerVars, notHealthLoop>>
    \/ /\ \E l \in Loops : HealthLoopTest(l)
       /\ UNCHANGED <<balancerVars, notHealthLoop>>
    \/ /\ \E l \in Loops : \E results \in [1..Len(serversList) -> BOOLEAN] :
              HealthLoopCheck(l, results)
       /\ UNCHANGED <<balancerVars, notHealthLoop>>
    \/ /\ \E l \in Loops : HealthLoopSleep(l)
       /\ UNCHANGED <<balancerVars, notHealthLoop>>

\* a balancer with its background health checks and one controlling thread
SpecHealthLoop == Init /\ [][NextHealthLoop]_vars

\* ------------------------------------------------------------------------
\* The cycles of the background health-check loop beside addServer and
\* removeServer
\* ------------------------------------------------------------------------
\* performHealthCheck in the loop: the shared_lock is taken and pingServers
\* copies _serversList (ping_server.cpp:305)
CycleBegin(l) ==
    /\ healthLoops[l].pc = "performHealthCheck"
    /\ cycle.n < MaxCycles
    /\ serversMutex' = serversMutex \cup {"healthCheck"}
    /\ cycle' = [state |-> "running", n |-> cycle.n + 1, servers |-> serversList,
                 removed |-> removed, added |-> added]
    /\ healthLoops' = [healthLoops EXCEPT ![l].pc = "pingServers"]
    /\ UNCHANGED <<healthCheckRunning, healthCheckTask, ctl, mutator, server, historyVars>>

\* the probes of the copy have come back, pingServers returns, the
\* shared_lock goes out of scope
CycleEnd(l, results) ==
    /\ healthLoops[l].pc = "pingServers"
    /\ Len(results) = Len(cycle.servers)
    /\ \E r \in {pingServers(server, cycle.servers, results)} :
        /\ \A s \in Servers : r.srv[s].failureCount <= MaxFailureCount
        /\ server' = r.srv
    /\ serversMutex' = serversMutex \ {"healthCheck"}
    /\ cycle' = [cycle EXCEPT !.state = "done"]
    /\ healthLoops' = [healthLoops EXCEPT ![l].pc = "sleep_for"]
    /\ UNCHANGED <<healthCheckRunning, healthCheckTask, ctl, mutator, historyVars>>

NextCycle ==
    \/ /\ StartHealthChecksEnter
       /\ UNCHANGED <<balancerVars, notHealthLoop>>
    \/ /\ \E l \in Loops : StartHealthChecksAsync(l)
       /\ UNCHANGED <<balancerVars, notHealthLoop>>
    \/ /\ StartHealthChecksAssign
       /\ UNCHANGED <<balancerVars, notHealthLoop>>
    \/ /\ \E l \in Loops : HealthLoopTest(l)
       /\ UNCHANGED <<balancerVars, notHealthLoop>>
    \/ /\ \E l \in Loops : CycleBegin(l)
       /\ UNCHANGED <<balancerVars, notCycle>>
    \/ /\ \E l \in Loops : \E results \in UNION {[1..n -> BOOLEAN] : n \in 0..(MaxInitLen + 1)} :
              CycleEnd(l, results)
       /\ UNCHANGED <<balancerVars, notCycle>>
    \/ /\ \E l \in Loops : HealthLoopSleep(l)
       /\ UNCHANGED <<balancerVars, notHealthLoop>>
    \/ /\ \E s \in Servers : MutatorEnter("addServer", s)
       /\ UNCHANGED <<balancerVars, notLock>>
    \/ /\ \E a \in Addresses : MutatorEnter("removeServer", a)
       /\ UNCHANGED <<balancerVars, notLock>>
    \/ /\ MutatorRun
       /\ UNCHANGED notLock

\* a balancer whose background loop runs beside a thread that adds and
\* removes targets
SpecCycle == InitRR /\ [][NextCycle]_vars

\* ------------------------------------------------------------------------
\* startHealthChecks and stopHealthChecks called from several threads
\* ------------------------------------------------------------------------
Controllers == 1..MaxControllers

\* lines 223-226 on thread t: the exchange; "already running" returns at once
ControllerStartExchange(t) ==
    /\ lb \in {"RR", "WRR"}
    /\ controllers[t].pc = "idle"
    /\ \E x \in {compare_exchange_strong(healthCheckRunning, FALSE, TRUE)} :
        /\ healthCheckRunning' = x.value
        /\ controllers' = [controllers EXCEPT ![t].pc = IF x.ok THEN "async" ELSE "idle"]
    /\ UNCHANGED <<healthCheckTask, healthLoops>>

\* lines 228-248 on thread t: std::async launches a loop thread
ControllerStartAsync(t, l) ==
    /\ controllers[t].pc = "async"
    /\ healthLoops[l].pc \in {"none", "exited"}
    /\ l # healthCheckTask
    /\ \A u \in Controllers : controllers[u].task # l
    /\ healthLoops' = [healthLoops EXCEPT ![l].pc = "test"]
    /\ controllers' = [controllers EXCEPT ![t] = [pc |-> "assign", task |-> l]]
    /\ UNCHANGED <<healthCheckRunning, healthCheckTask>>

\* line 235 on thread t: the future is moved into _healthCheckTask, which
\* first releases the state it held and waits for that task to finish
ControllerStartAssign(t) ==
    /\ controllers[t].pc = "assign"
    /\ TaskDone(healthCheckTask, healthLoops)
    /\ healthCheckTask' = controllers[t].task
    /\ controllers' = [controllers EXCEPT ![t] = [pc |-> "idle", task |-> 0]]
    /\ UNCHANGED <<healthCheckRunning, healthLoops>>

\* line 254 on thread t: _healthCheckRunning.store(false)
ControllerStopStore(t) ==
    /\ lb \in {"RR", "WRR"}
    /\ controllers[t].pc = "idle"
    /\ healthCheckRunning' = FALSE
    /\ controllers' = [controllers EXCEPT ![t].pc = "wait"]
    /\ UNCHANGED <<healthCheckTask, healthLoops>>

\* lines 256-262 on thread t: if (_healthCheckTask.valid()) wait; return
ControllerStopWait(t) ==
    /\ controllers[t].pc = "wait"
    /\ TaskDone(healthCheckTask, healthLoops)
    /\ controllers' = [controllers EXCEPT ![t].pc = "idle"]
    /\ UNCHANGED healthLoopVars

NextControl ==
    \/ /\ \E t \in Controllers : ControllerStartExchange(t)
       /\ UNCHANGED <<balancerVars, server, historyVars, notControl>>
    \/ /\ \E t \in Controllers, l \in Loops : ControllerStartAsync(t, l)
       /\ UNCHANGED <<balancerVars, server, historyVars, notControl>>
    \/ /\ \E t \in Controllers : ControllerStartAssign(t)
       /\ UNCHANGED <<balancerVars, server, historyVars, notControl>>
    \/ /\ \E t \in Controllers : ControllerStopStore(t)
       /\ UNCHANGED <<balancerVars, server, historyVars, notControl>>
    \/ /\ \E t \in Controllers : ControllerStopWait(t)
       /\ UNCHANGED <<balancerVars, server, historyVars, notControl>>
    \/ /\ \E l \in Loops : HealthLoopTest(l)
       /\ UNCHANGED <<balancerVars, notHealthLoop>>
    \/ /\ \E l \in Loops : \E results \in [1..Len(serversList) -> BOOLEAN] :
              HealthLoopCheck(l, results)
       /\ UNCHANGED <<balancerVars, notHealthLoop>>
    \/ /\ \E l \in Loops : HealthLoopSleep(l)
       /\ UNCHANGED <<balancerVars, notHealthLoop>>

\* a balancer with its background health checks, started and stopped from
\* several threads
SpecControl == Init /\ [][NextControl]_vars

\* ------------------------------------------------------------------------
\* The constructors as calls
\* ------------------------------------------------------------------------
\* servers.empty()
empty_Never(list) == FALSE
empty(list) == Len(list) = 0

\* RoundRobinLoadBalancer / WeightedRoundRobinLoadBalancer constructor on a
\* list of Server objects: the base constructor, then the test of the list;
\* the exception leaves no object
Construct(class, list) ==
    /\ lb = "none"
    /\ Len(given) < MaxAttempts
    /\ given' = Append(given, list)
    /\ IF empty(list)
       THEN /\ ret' = "invalid_argument"
            /\ UNCHANGED <<lb, serversList, currentServerIndex, weightedServersList,
                           healthLoopVars>>
       ELSE /\ lb' = class
            /\ serversList' = list
            /\ currentServerIndex' = 0
            /\ weightedServersList' = IF class = "WRR"
                                      THEN updateWeightedList(server, list, 1)
                                      ELSE <<>>
            /\ healthCheckRunning' = FALSE
            /\ UNCHANGED <<healthCheckTask, healthLoops>>
            /\ ret' = None
    /\ op' = "construct"
    /\ arg' = None
    /\ run' = <<>>
    /\ UNCHANGED <<server, removed, added, streak>>
    /\ UNCHANGED <<pingVars, selectVars, lockVars, backgroundVars, ctl, revived, dnsVars,
                   controllers, snapshotVars, cycle, anyFailed, rebuild,
                   maxHealthCheckFailures, callVars, reads, connectionVars>>

NextConstruct ==
    \/ \E list \in InitLists \cup {<<>>} : Construct("RR", list)
    \/ \E list \in InitLists \cup {<<>>} : Construct("WRR", list)
    \/ GetNextServerRR
    \/ GetNextServerWRR
    \/ lb # "none" /\ \E results \in [1..Len(serversList) -> BOOLEAN] : PerformHealthCheck(results)

\* no balancer yet; constructor calls, then calls on the balancer
SpecConstruct == InitPing /\ [][NextConstruct]_vars

\* ------------------------------------------------------------------------
\* Server::incrementConnections and Server::decrementConnections from
\* several threads
\* ------------------------------------------------------------------------
\* "current > 0" on a uint32_t: every bit pattern but 0
GreaterThanZero(current) == current # 0

\* Server::incrementConnections: "_currentConnections++", one atomic step
IncrementConnections(t) ==
    /\ clients[t].pc = "idle"
    /\ incremented < MaxIncrements
    /\ currentConnections' = currentConnections + 1
    /\ incremented' = incremented + 1
    /\ UNCHANGED <<clients, decremented>>

\* Server::decrementConnections: "uint32_t current = _currentConnections.load()"
DecrementLoad(t) ==
    /\ clients[t].pc = "idle"
    /\ decremented < MaxDecrements
    /\ clients' = [clients EXCEPT ![t] = [pc |-> "loaded", current |-> currentConnections]]
    /\ decremented' = decremented + 1
    /\ UNCHANGED <<currentConnections, incremented>>

\* Server::decrementConnections: "if (current > 0) _currentConnections--", the
\* decrement an atomic step of its own on the value the counter has by then
DecrementTest(t) ==
    /\ clients[t].pc = "loaded"
    /\ currentConnections' = IF GreaterThanZero(clients[t].current)
                             THEN currentConnections - 1
                             ELSE currentConnections
    /\ clients' = [clients EXCEPT ![t] = [pc |-> "idle", current |-> 0]]
    /\ UNCHANGED <<incremented, decremented>>

NextConnections ==
    \/ /\ \E t \in Clients : IncrementConnections(t)
       /\ UNCHANGED <<balancerVars, server, historyVars, notConnections>>
    \/ /\ \E t \in Clients : DecrementLoad(t)
       /\ UNCHANGED <<balancerVars, server, historyVars, notConnections>>
    \/ /\ \E t \in Clients : DecrementTest(t)
       /\ UNCHANGED <<balancerVars, server, historyVars, notConnections>>

\* one Server, its connection counter used from several threads
SpecConnections == InitPing /\ [][NextConnections]_vars

\* ------------------------------------------------------------------------
\* Calls from several threads, lock by lock: _serversMutex (shared or
\* exclusive), _weightedListMutex and _configMutex
\* ------------------------------------------------------------------------
Holder(t, mode) == [thread |-> t, mode |-> mode]

\* std::shared_lock<std::shared_mutex> is granted: no thread holds it exclusively
shared_lock(mutex) == \A h \in mutex : h.mode = "shared"

\* the lock objects of thread t on the shared mutex go out of scope
Released(mutex, t) == {h \in mutex : h.thread # t}

\* weightedLock.unlock() before updateWeightedList is called
unlock_Kept(holder) == holder
unlock(holder) == 0

\* the first lock a call takes
FirstLock(call) ==
    IF call \in {"addServer", "removeServer"} THEN "unique_lock"
    ELSE IF call = "getMaxHealthCheckFailures" THEN "config_lock"
    ELSE "shared_lock"

\* a thread enters a call
CallEnter(t, call, a) ==
    /\ threads[t].pc = "idle"
    /\ issued < MaxIssued
    /\ threads' = [threads EXCEPT ![t] =
                      [IdleThread EXCEPT !.pc = FirstLock(call), !.call = call, !.arg = a]]
    /\ issued' = issued + 1
    /\ UNCHANGED <<serversMutex, weightedListMutex, configMutex, serversList,
                   currentServerIndex, weightedServersList, server>>

\* the shared lock on _serversMutex is granted: getNextServer of either
\* class, getServerCount, performHealthCheck
SharedLockGranted(t) ==
    /\ threads[t].pc = "shared_lock"
    /\ shared_lock(serversMutex)
    /\ serversMutex' = serversMutex \cup {Holder(t, "shared")}
    /\ threads' = [threads EXCEPT ![t].pc =
                      IF threads[t].call = "getNextServer"
                      THEN (IF lb = "RR" THEN "begin" ELSE "weighted_lock")
                      ELSE IF threads[t].call = "getServerCount" THEN "size"
                      ELSE "pingServers"]
    /\ UNCHANGED <<weightedListMutex, configMutex, issued, serversList,
                   currentServerIndex, weightedServersList, server>>

\* the list a getNextServer scans
ScannedList == IF lb = "RR" THEN serversList ELSE weightedServersList

\* the thread returns from its call; its locks go out of scope
Return(t) ==
    /\ threads' = [threads EXCEPT ![t] = IdleThread]
    /\ serversMutex' = Released(serversMutex, t)
    /\ weightedListMutex' = IF weightedListMutex = t THEN 0 ELSE weightedListMutex
    /\ configMutex' = IF configMutex = t THEN 0 ELSE configMutex

\* getNextServer under its lock: the empty test, the load of the cursor and
\* of the list size
ScanBegin(t) ==
    /\ threads[t].pc = "begin"
    /\ IF Len(ScannedList) = 0
       THEN Return(t)
       ELSE /\ threads' = [threads EXCEPT ![t].pc = "scan",
                                          ![t].startIndex = currentServerIndex,
                                          ![t].serverCount = Len(ScannedList),
                                          ![t].i = 0]
            /\ UNCHANGED <<serversMutex, weightedListMutex, configMutex>>
    /\ UNCHANGED <<issued, serversList, currentServerIndex, weightedServersList, server>>

\* one iteration of "for (size_t i = 0; i < serverCount; ++i)"
ScanVisit(t) ==
    /\ threads[t].pc = "scan"
    /\ threads[t].i < threads[t].serverCount
    /\ LET th    == threads[t]
           index == (th.startIndex + th.i) % th.serverCount
           s     == ScannedList[index + 1]
       IN  IF server[s].isAlive /\ server[s].isHealthy
           THEN /\ currentServerIndex' = (index + 1) % th.serverCount
                /\ Return(t)
           ELSE /\ threads' = [threads EXCEPT
                      ![t].i = th.i + 1,
                      ![t].fallbackServer =
                          IF server[s].isAlive /\ th.fallbackServer = None
                          THEN s ELSE th.fallbackServer]
                /\ UNCHANGED <<currentServerIndex, serversMutex, weightedListMutex,
                               configMutex>>
    /\ UNCHANGED <<issued, serversList, weightedServersList, server>>

\* after the loop: the fallback's index search, or nullptr
ScanFallback(t) ==
    /\ threads[t].pc = "scan"
    /\ threads[t].i >= threads[t].serverCount
    /\ LET th == threads[t]
           at == WRRFallbackIndex(ScannedList, th.fallbackServer, 0)
       IN  currentServerIndex' =
               IF th.fallbackServer # None /\ at < th.serverCount
               THEN (at + 1) % th.serverCount
               ELSE currentServerIndex
    /\ Return(t)
    /\ UNCHANGED <<issued, serversList, weightedServersList, server>>

\* WeightedRoundRobinLoadBalancer::getNextServer, first block: holding the
\* shared lock the thread is granted _weightedListMutex, tests the list and
\* lets go of both locks, by unlock() before updateWeightedList or at the
\* end of the block
WeightedLockGranted(t) ==
    /\ threads[t].pc = "weighted_lock"
    /\ weightedListMutex = 0
    /\ serversMutex' = Released(serversMutex, t)
    /\ IF Len(weightedServersList) = 0
       THEN /\ weightedListMutex' = unlock(t)
            /\ threads' = [threads EXCEPT ![t].pc = "updateWeightedList"]
       ELSE /\ weightedListMutex' = 0
            /\ threads' = [threads EXCEPT ![t].pc = "lock_guard"]
    /\ UNCHANGED <<configMutex, issued, serversList, currentServerIndex,
                   weightedServersList, server>>

\* updateWeightedList: the copy of the pool under a shared lock of its own
UpdateCopy(t) ==
    /\ threads[t].pc = "updateWeightedList"
    /\ shared_lock(serversMutex)
    /\ threads' = [threads EXCEPT ![t].pc = "update_lock",
                                  ![t].serversCopy = serversList]
    /\ UNCHANGED <<serversMutex, weightedListMutex, configMutex, issued, serversList,
                   currentServerIndex, weightedServersList, server>>

\* updateWeightedList: the rebuild under _weightedListMutex
UpdateRebuild(t) ==
    /\ threads[t].pc = "update_lock"
    /\ weightedListMutex = 0
    /\ weightedServersList' = updateWeightedList(server, threads[t].serversCopy, 1)
    /\ threads' = [threads EXCEPT ![t].pc = "lock_guard", ![t].serversCopy = <<>>]
    /\ UNCHANGED <<serversMutex, weightedListMutex, configMutex, issued, serversList,
                   currentServerIndex, server>>

\* "std::lock_guard<std::mutex> lock(_weightedListMutex)" before the scan
LockGuardGranted(t) ==
    /\ threads[t].pc = "lock_guard"
    /\ weightedListMutex = 0
    /\ weightedListMutex' = t
    /\ threads' = [threads EXCEPT ![t].pc = "begin"]
    /\ UNCHANGED <<serversMutex, configMutex, issued, serversList, currentServerIndex,
                   weightedServersList, server>>

\* addServer, removeServer: the exclusive lock is granted
UniqueLockGranted(t) ==
    /\ threads[t].pc = "unique_lock"
    /\ unique_lock(serversMutex)
    /\ serversMutex' = {Holder(t, "unique")}
    /\ threads' = [threads EXCEPT ![t].pc = "mutate"]
    /\ UNCHANGED <<weightedListMutex, configMutex, issued, serversList,
                   currentServerIndex, weightedServersList, server>>

\* addServer, removeServer: the pool is changed and the call returns
Mutate(t) ==
    /\ threads[t].pc = "mutate"
    /\ serversList' = IF threads[t].call = "addServer"
                      THEN addServer(serversList, threads[t].arg).list
                      ELSE removeServer(serversList, threads[t].arg).list
    /\ Return(t)
    /\ UNCHANGED <<issued, currentServerIndex, weightedServersList, server>>

\* getServerCount returns
Size(t) ==
    /\ threads[t].pc = "size"
    /\ Return(t)
    /\ UNCHANGED <<issued, serversList, currentServerIndex, weightedServersList, server>>

\* performHealthCheck: the probes have come back, pingServers returns
HealthCheckReturn(t, results) ==
    /\ threads[t].pc = "pingServers"
    /\ \E r \in {pingServers(server, serversList, results)} :
        /\ \A s \in Servers : r.srv[s].failureCount <= MaxFailureCount
        /\ server' = r.srv
    /\ Return(t)
    /\ UNCHANGED <<issued, serversList, currentServerIndex, weightedServersList>>

\* getMaxHealthCheckFailures: _configMutex is granted
ConfigLockGranted(t) ==
    /\ threads[t].pc = "config_lock"
    /\ configMutex = 0
    /\ configMutex' = t
    /\ threads' = [threads EXCEPT ![t].pc = "config"]
    /\ UNCHANGED <<serversMutex, weightedListMutex, issued, serversList,
                   currentServerIndex, weightedServersList, server>>

\* getMaxHealthCheckFailures returns
ConfigReturn(t) ==
    /\ threads[t].pc = "config"
    /\ Return(t)
    /\ UNCHANGED <<issued, serversList, currentServerIndex, weightedServersList, server>>

\* the calls a thread may enter, with their arguments
CallsAndArguments ==
    ({"getNextServer", "getServerCount", "performHealthCheck",
      "getMaxHealthCheckFailures"} \X {None})
        \cup ({"addServer"} \X Servers) \cup ({"removeServer"} \X Addresses)

\* a step of one of the threads
NextCalls ==
    \/ /\ \E t \in Threads : \E c \in CallsAndArguments : CallEnter(t, c[1], c[2])
       /\ UNCHANGED <<lb, historyVars, notCalls>>
    \/ /\ \E t \in Threads : SharedLockGranted(t)
       /\ UNCHANGED <<lb, historyVars, notCalls>>
    \/ /\ \E t \in Threads : ScanBegin(t)
       /\ UNCHANGED <<lb, historyVars, notCalls>>
    \/ /\ \E t \in Threads : ScanVisit(t)
       /\ UNCHANGED <<lb, historyVars, notCalls>>
    \/ /\ \E t \in Threads : ScanFallback(t)
       /\ UNCHANGED <<lb, historyVars, notCalls>>
    \/ /\ \E t \in Threads : WeightedLockGranted(t)
       /\ UNCHANGED <<lb, historyVars, notCalls>>
    \/ /\ \E t \in Threads : UpdateCopy(t)
       /\ UNCHANGED <<lb, historyVars, notCalls>>
    \/ /\ \E t \in Threads : UpdateRebuild(t)
       /\ UNCHANGED <<lb, historyVars, notCalls>>
    \/ /\ \E t \in Threads : LockGuardGranted(t)
       /\ UNCHANGED <<lb, historyVars, notCalls>>
    \/ /\ \E t \in Threads : UniqueLockGranted(t)
       /\ UNCHANGED <<lb, historyVars, notCalls>>
    \/ /\ \E t \in Threads : Mutate(t)
       /\ UNCHANGED <<lb, historyVars, notCalls>>
    \/ /\ \E t \in Threads : Size(t)
       /\ UNCHANGED <<lb, historyVars, notCalls>>
    \/ /\ \E t \in Threads : \E results \in [1..Len(serversList) -> BOOLEAN] : HealthCheckReturn(t, results)
       /\ UNCHANGED <<lb, historyVars, notCalls>>
    \/ /\ \E t \in Threads : ConfigLockGranted(t)
       /\ UNCHANGED <<lb, historyVars, notCalls>>
    \/ /\ \E t \in Threads : ConfigReturn(t)
       /\ UNCHANGED <<lb, historyVars, notCalls>>

\* a balancer of either class called from several threads; some thread that
\* can take a step does
SpecCalls == Init /\ [][NextCalls]_vars /\ WF_vars(NextCalls)

\* ------------------------------------------------------------------------
\* PingServer::resolveHostname, step by step, with the clock
\* ------------------------------------------------------------------------
\* the instants the clock is observed at
Instants == {b + k : b \in {0, DefaultDNSCacheTTL}, k \in 0..MaxLate}

\* inet_pton(AF_INET, hostname) == 1
IsIPv4Literal_Never(h) == FALSE
IsIPv4Literal(h) == h = "10.0.0.1"

\* it != _dnsCache.end() && it->second.expiryTime > now
CacheValid_Inclusive(entry, t) == entry # NoEntry /\ entry.expiryTime >= t
CacheValid(entry, t) == entry # NoEntry /\ entry.expiryTime > t

\* the history with one more finished call
Remember(h, at, r, invoked, stored) ==
    LET rec == [host |-> h, at |-> at, ret |-> r, invoked |-> invoked,
                stored |-> stored,
                expiry |-> IF stored = -1 THEN dnsCache[h].expiryTime
                           ELSE dnsCache'[h].expiryTime]
        all == Append(calls, rec)
    IN  IF Len(all) > 2 THEN Tail(all) ELSE all

\* entry of resolveHostname: the literal test and the cache lookup
ResolveEnter(h) ==
    /\ dns.pc = "idle"
    /\ IF IsIPv4Literal(h)
       THEN /\ calls' = Remember(h, now, h, FALSE, -1)
            /\ dns' = dns
       ELSE IF CacheValid(dnsCache[h], now)
       THEN /\ calls' = Remember(h, now, dnsCache[h].resolvedIP, FALSE, -1)
            /\ dns' = dns
       ELSE /\ dns' = [pc |-> "getaddrinfo", host |-> h, at |-> now, ip |-> ""]
            /\ calls' = calls
    /\ UNCHANGED <<dnsCache, dnsCacheTTL, now>>

\* getaddrinfo returns: a failure ends the call with "" and caches nothing
ResolveGetaddrinfo(result) ==
    /\ dns.pc = "getaddrinfo"
    /\ IF result = ""
       THEN /\ calls' = Remember(dns.host, dns.at, "", TRUE, -1)
            /\ dns' = IdleResolve
       ELSE /\ dns' = [dns EXCEPT !.pc = "store", !.ip = result]
            /\ calls' = calls
    /\ UNCHANGED <<dnsCache, dnsCacheTTL, now>>

\* the cache update and the return of the resolved address
ResolveStore ==
    /\ dns.pc = "store"
    /\ dnsCache' = [dnsCache EXCEPT ![dns.host] =
                        [resolvedIP |-> dns.ip, expiryTime |-> now + dnsCacheTTL]]
    /\ calls' = Remember(dns.host, dns.at, dns.ip, TRUE, now)
    /\ dns' = IdleResolve
    /\ UNCHANGED <<dnsCacheTTL, now>>

\* PingServer::clearDNSCache, between two calls
ClearDNSCache ==
    /\ dns.pc = "idle"
    /\ dnsCache' = [h \in Hostnames |-> NoEntry]
    /\ calls' = <<>>
    /\ UNCHANGED <<dnsCacheTTL, now, dns>>

\* the clock advances, also while a resolution is under way
Tick(t) ==
    /\ t > now
    /\ now' = t
    /\ UNCHANGED <<dnsCache, dnsCacheTTL, dns, calls>>

NextDNS ==
    \/ \E h \in Hostnames : ResolveEnter(h) /\ UNCHANGED <<balancerVars, server, historyVars, notDNS>>
    \/ \E result \in ResolvedIPs \cup {""} :
            ResolveGetaddrinfo(result) /\ UNCHANGED <<balancerVars, server, historyVars, notDNS>>
    \/ ResolveStore /\ UNCHANGED <<balancerVars, server, historyVars, notDNS>>
    \/ ClearDNSCache /\ UNCHANGED <<balancerVars, server, historyVars, notDNS>>
    \/ \E t \in Instants : Tick(t) /\ UNCHANGED <<balancerVars, server, historyVars, notDNS>>

\* a prober resolving host names
SpecDNS == InitPing /\ [][NextDNS]_vars

\* ------------------------------------------------------------------------
\* Vocabulary of the properties
\* ------------------------------------------------------------------------
PoolLen == Len(serversList)

Alive(s) == server[s].isAlive

Usable(s) == server[s].isAlive /\ server[s].isHealthy

AnyAlive == \E i \in 1..PoolLen : Alive(serversList[i])

AnyUsable == \E i \in 1..PoolLen : Usable(serversList[i])

AllUsable == \A i \in 1..PoolLen : Usable(serversList[i])

InPool(s) == \E i \in 1..PoolLen : serversList[i] = s

NoDuplicateAddress(list) ==
    \A i, j \in 1..Len(list) :
        i # j => getServerAddress(list[i]) # getServerAddress(list[j])

NoDuplicateObject(list) == \A i, j \in 1..Len(list) : i # j => list[i] # list[j]

\* the cursor the last getNextServer call started from
CursorBefore == run[Len(run)].c

\* scan steps from cursor c to the (1-based) pool position p
CyclicOffset(p, c) == ((p - 1) + PoolLen - (c % PoolLen)) % PoolLen

\* first pool position, in cyclic order from cursor c, whose target is alive
FirstAliveFrom(c) ==
    CHOOSE p \in 1..PoolLen :
        /\ Alive(serversList[p])
        /\ \A q \in 1..PoolLen :
               Alive(serversList[q]) => CyclicOffset(p, c) <= CyclicOffset(q, c)

\* first pool position, in cyclic order from cursor c, whose target is alive and healthy
FirstUsableFrom(c) ==
    CHOOSE p \in 1..PoolLen :
        /\ Usable(serversList[p])
        /\ \A q \in 1..PoolLen :
               Usable(serversList[q]) => CyclicOffset(p, c) <= CyclicOffset(q, c)

\* the (0-based) index the pool holds target s at; the first one, should the
\* pool list the same object more than once
IndexOf(s) ==
    CHOOSE p \in 0..(PoolLen - 1) :
        /\ serversList[p + 1] = s
        /\ \A q \in 0..(p - 1) : serversList[q + 1] # s

\* ------------------------------------------------------------------------
\* C1  Round-robin getNextServer, called k times in a row on an unchanged pool
\*     of N >= 1 targets that are all alive and healthy, starting with the
\*     cursor at c: the k-th call returns pool[(c+k) mod N]; hence N
\*     consecutive calls return every target once, and no address twice when
\*     the pool holds no address twice.
\* ------------------------------------------------------------------------
C1_RoundRobinCycle ==
    (lb = "RR" /\ op = "getNextServer" /\ PoolLen >= 1 /\ AllUsable) =>
        /\ \A k \in 1..Len(run) :
               run[k].r = serversList[((run[1].c + (k - 1)) % PoolLen) + 1]
        /\ \A j, k \in 1..Len(run) :
               (j < k /\ k - j < PoolLen) =>
                   /\ NoDuplicateObject(serversList) => run[j].r # run[k].r
                   /\ NoDuplicateAddress(serversList) =>
                          getServerAddress(run[j].r) # getServerAddress(run[k].r)

\* three distinct targets, all alive and healthy, a run that starts in the
\* middle of the pool and has come round to its first target again
C1_Witness ==
    /\ lb = "RR" /\ op = "getNextServer" /\ PoolLen = 3 /\ AllUsable
    /\ NoDuplicateObject(serversList)
    /\ Len(run) > PoolLen
    /\ run[1].c = 1
    /\ run[PoolLen + 1].r = run[1].r

\* ------------------------------------------------------------------------
\* C2  Weighted round-robin getNextServer, called in a row with all targets
\*     alive and healthy, weights w_1..w_n and W their sum: every window of W
\*     consecutive calls returns target i exactly w_i times, and the returned
\*     sequence has period W.
\* ------------------------------------------------------------------------
RECURSIVE SumWeights(_)
SumWeights(list) ==
    IF Len(list) = 0 THEN 0 ELSE server[Head(list)].weight + SumWeights(Tail(list))

\* how often the calls j .. j+len-1 of the run returned target t
Occurrences(t, j, len) == Cardinality({k \in j..(j + len - 1) : run[k].r = t})

C2_WeightedShare ==
    (/\ lb = "WRR" /\ op = "getNextServer"
     /\ PoolLen >= 1 /\ AllUsable /\ NoDuplicateObject(serversList)
     /\ SumWeights(serversList) >= 1
     /\ Len(run) >= SumWeights(serversList)) =>
        /\ \A j \in 1..(Len(run) - SumWeights(serversList) + 1) :
               \A i \in 1..PoolLen :
                   Occurrences(serversList[i], j, SumWeights(serversList))
                       = server[serversList[i]].weight
        /\ \A k \in 1..(Len(run) - SumWeights(serversList)) :
               run[k + SumWeights(serversList)].r = run[k].r

\* ------------------------------------------------------------------------
\* C3  From alive = true and failureCount = 0, after k failed probes in a row
\*     (by pingServer or by the parallel ping of a list): the target is still
\*     alive for k = 1 and k = 2 and not alive from k = 3 on.
\* ------------------------------------------------------------------------
C3_ThirdFailureKills ==
    \A s \in Servers :
        /\ streak[s] \in {1, 2} => server[s].isAlive
        /\ streak[s] >= 3 => ~server[s].isAlive

\* the third failure in a row has just been recorded by a health check
C3_Witness ==
    /\ op = "performHealthCheck"
    /\ NoDuplicateObject(serversList)
    /\ \E s \in Servers : InPool(s) /\ streak[s] = 3 /\ ~server[s].isAlive

\* ------------------------------------------------------------------------
\* C4  Round-robin getNextServer on a pool with an alive target and no target
\*     alive and healthy does not return nullptr: it returns the first alive
\*     target in cyclic order from the cursor and leaves the cursor at
\*     (index of that target + 1) mod N.
\* ------------------------------------------------------------------------
C4_FallbackFirstAlive ==
    (lb = "RR" /\ op = "getNextServer" /\ AnyAlive /\ ~AnyUsable) =>
        /\ ret # None
        /\ ret = serversList[FirstAliveFrom(CursorBefore)]
        /\ currentServerIndex = (IndexOf(ret) + 1) % PoolLen

\* the scan passed a dead target and wrapped round before it met the fallback
C4_Witness ==
    /\ lb = "RR" /\ op = "getNextServer" /\ AnyAlive /\ ~AnyUsable
    /\ PoolLen >= 2
    /\ CursorBefore % PoolLen # 0
    /\ ~Alive(serversList[(CursorBefore % PoolLen) + 1])
    /\ ret # None
    /\ IndexOf(ret) < CursorBefore % PoolLen

\* ------------------------------------------------------------------------
\* C5  For both classes, getNextServer on a pool without an alive target
\*     (an empty pool included) returns nullptr.
\* ------------------------------------------------------------------------
C5_NoneWhenNoneAlive ==
    (op = "getNextServer" /\ ~AnyAlive) => ret = None

\* ------------------------------------------------------------------------
\* C6  Round-robin getNextServer: a returned target is alive, and when the
\*     pool holds a target that is alive and healthy the call returns the
\*     first such target in cyclic order from the cursor.
\* ------------------------------------------------------------------------
C6_HealthyPreferred ==
    (lb = "RR" /\ op = "getNextServer") =>
        /\ ret # None => Alive(ret)
        /\ AnyUsable =>
               /\ ret = serversList[FirstUsableFrom(CursorBefore)]
               /\ Usable(ret)

\* an alive but unhealthy target stood at the cursor and was passed over
C6_Witness ==
    /\ lb = "RR" /\ op = "getNextServer" /\ AnyUsable
    /\ Alive(serversList[(CursorBefore % PoolLen) + 1])
    /\ ~Usable(serversList[(CursorBefore % PoolLen) + 1])
    /\ ret # None /\ Usable(ret)

\* ------------------------------------------------------------------------
\* C7  For both classes: once removeServer(a) has returned true, and until a
\*     is added again, getNextServer returns no target with address a.
\* ------------------------------------------------------------------------
C7_RemovedNeverSelected ==
    (op = "getNextServer" /\ ret # None) => getServerAddress(ret) \notin removed

\* ------------------------------------------------------------------------
\* C8  Weighted round-robin: after addServer(t) returned true for a target t
\*     that is alive, healthy and of weight >= 1, getNextServer calls in a
\*     row return t within one full pass over the expansion list.
\* ------------------------------------------------------------------------
C8_AddedIsSelected ==
    (/\ lb = "WRR" /\ op = "getNextServer"
     /\ Len(weightedServersList) >= 1
     /\ Len(run) >= Len(weightedServersList)) =>
        \A t \in added :
            (InPool(t) /\ Usable(t) /\ server[t].weight >= 1) =>
                \E k \in 1..Len(run) : run[k].r = t

\* ------------------------------------------------------------------------
\* C9  addServer with an address the pool already holds returns false and
\*     leaves the pool as it is; with a new address it returns true and
\*     appends the target at the end; removeServer with an address the pool
\*     does not hold returns false and leaves the pool as it is.
\* ------------------------------------------------------------------------
PoolHasAddress(a) == \E i \in 1..PoolLen : getServerAddress(serversList[i]) = a

C9_AddRemoveStep ==
    /\ (op' = "addServer" /\ arg' # None) =>
           IF PoolHasAddress(getServerAddress(arg'))
           THEN ret' = FALSE /\ serversList' = serversList
           ELSE ret' = TRUE /\ serversList' = Append(serversList, arg')
    /\ (op' = "removeServer" /\ ~PoolHasAddress(arg')) =>
           ret' = FALSE /\ serversList' = serversList

C9_AddRemove == [][C9_AddRemoveStep]_vars

\* a second object with an address of the pool was refused
C9_Witness ==
    /\ op = "addServer" /\ arg = "s3" /\ ret = FALSE
    /\ InPool("s1") /\ ~InPool("s3")

\* ------------------------------------------------------------------------
\* C10 No two targets of the pool have the same address, in any state from
\*     construction on.
\* ------------------------------------------------------------------------
C10_UniqueAddresses == NoDuplicateAddress(serversList)

\* ------------------------------------------------------------------------
\* C11 A parallel ping over K list entries with P workers (P < K included)
\*     calls the probe once per entry under every interleaving, never twice,
\*     and has returned only when every worker has finished its updates.
\* ------------------------------------------------------------------------
C11_ProbedOnce ==
    /\ \A i \in 1..MaxPingLen : probes[i] <= 1
    /\ pp.state = "returned" =>
           /\ \A i \in 1..MaxPingLen : probes[i] = (IF i <= Len(pp.servers) THEN 1 ELSE 0)
           /\ WorkersDone

\* a ping of three entries by two workers has returned
C11_Witness ==
    /\ pp.state = "returned"
    /\ Len(pp.servers) = MaxPingLen
    /\ pp.poolSize = 2
    /\ pp.poolSize < Len(pp.servers)
    /\ \A i \in 1..MaxPingLen : probes[i] = 1

\* ------------------------------------------------------------------------
\* C12 Round-robin getNextServer calls that overlap on several threads, pool
\*     unchanged and all targets alive and healthy: k calls move the cursor by
\*     k mod N, and k <= N calls return k different targets.
\* ------------------------------------------------------------------------
C12_CursorLinearizable ==
    (lb = "RR" /\ PoolLen >= 1 /\ AllUsable /\ Quiescent /\ batch.done >= 1) =>
        /\ currentServerIndex = (batch.base + batch.done) % PoolLen
        /\ (batch.done <= PoolLen /\ NoDuplicateObject(serversList)) =>
               \A i, j \in 1..Len(batch.rets) : i # j => batch.rets[i] # batch.rets[j]

\* ------------------------------------------------------------------------
\* C13 In every reachable state, the states inside setHealthy and inside a
\*     probe's update included, a target with isHealthy = true has
\*     failureCount = 0.
\* ------------------------------------------------------------------------
C13_HealthyMeansNoFailures ==
    \A s \in Servers : server[s].isHealthy => server[s].failureCount = 0

\* ------------------------------------------------------------------------
\* C14 addServer and removeServer never wait for network I/O: no state has a
\*     pool mutation blocked on _serversMutex while the thread holding it is
\*     a health check whose probes are still in flight.
\* ------------------------------------------------------------------------
C14_MutationNeverWaitsForProbes ==
    ~(/\ mutator.pc = "unique_lock"
      /\ "healthCheck" \in serversMutex
      /\ Len(serversList) > 0)

\* ------------------------------------------------------------------------
\* C15 When stopBackgroundPing has returned, the loop started before it has
\*     left pingWorker: no loop thread is alive, so none calls the probe again
\*     and no probe is in flight.
\* ------------------------------------------------------------------------
C15_StopJoinsLoop ==
    (ctl.pc = "idle" /\ op = "stopBackgroundPing") =>
        /\ LiveLoops(pingLoops) = {}
        /\ ~isRunning

\* a loop that has pinged was stopped
C15_Witness ==
    /\ ctl.pc = "idle" /\ op = "stopBackgroundPing"
    /\ pingTask # 0
    /\ pingLoops[pingTask].pc = "exited"
    /\ Len(pingLoops[pingTask].servers) = 2
    /\ \E s \in PingTargets : server[s].isHealthy

\* ------------------------------------------------------------------------
\* C16 startHealthChecks while a loop runs launches no second loop; when
\*     stopHealthChecks has returned (called once, twice, or with nothing
\*     running) isHealthCheckRunning is false and no loop thread is alive.
\* ------------------------------------------------------------------------
C16_StartStopIdempotent ==
    /\ Cardinality(LiveLoops(healthLoops)) <= 1
    /\ (ctl.pc = "idle" /\ op = "startHealthChecks" /\ ret = FALSE) =>
           /\ healthCheckRunning
           /\ healthCheckTask # 0
    /\ (ctl.pc = "idle" /\ op = "stopHealthChecks") =>
           /\ ~healthCheckRunning
           /\ LiveLoops(healthLoops) = {}

\* a second loop, started after the first was stopped, has probed and was
\* stopped in its turn
C16_Witness ==
    /\ ctl.pc = "idle" /\ op = "stopHealthChecks"
    /\ healthCheckTask # 0
    /\ \A l \in Loops : healthLoops[l].pc = "exited"
    /\ \E i \in 1..PoolLen : server[serversList[i]].isHealthy

\* ------------------------------------------------------------------------
\* C17 A target that was not alive and whose probe succeeded is alive and
\*     healthy with failureCount = 0, and getNextServer calls in a row on a
\*     balancer whose pool holds it return it within one pass (the pool for
\*     round robin, the expansion list for weighted round robin, where the
\*     target has weight >= 1).
\* ------------------------------------------------------------------------
PassLength == IF lb = "RR" THEN PoolLen ELSE Len(weightedServersList)

C17_RevivedIsUsable ==
    \A t \in revived :
        /\ server[t].isAlive /\ server[t].isHealthy /\ server[t].failureCount = 0
        /\ (/\ op = "getNextServer"
            /\ InPool(t)
            /\ lb = "WRR" => server[t].weight >= 1
            /\ Len(run) >= PassLength) =>
               \E k \in 1..Len(run) : run[k].r = t

\* ------------------------------------------------------------------------
\* C18 Of two resolveHostname calls in a row for the same host name that is
\*     not an IPv4 literal, where the first leaves a cache entry and the
\*     second tests the cache before that entry's expiry time, the second
\*     invokes no resolution and returns the first one's address (so the two
\*     invoke getaddrinfo once when the first one created the entry); when
\*     the second tests the cache at or after the expiry time it invokes
\*     getaddrinfo again, and on success the entry it stores expires at the
\*     time of the store plus the TTL.
\* ------------------------------------------------------------------------
C18_CachedUntilExpiry ==
    \A i \in 1..(Len(calls) - 1) :
        LET a == calls[i]
            b == calls[i + 1]
        IN  (a.host = b.host /\ ~IsIPv4Literal(a.host) /\ a.expiry # -1) =>
               /\ b.at < a.expiry =>
                     /\ ~b.invoked
                     /\ b.ret = a.ret
                     /\ a.stored # -1 => a.invoked
               /\ b.at >= a.expiry =>
                     /\ b.invoked
                     /\ b.ret # "" => (b.stored # -1 /\ b.expiry = b.stored + dnsCacheTTL)

\* a resolution that stored an entry and a later call, before the expiry,
\* answered from the cache
C18_Witness ==
    /\ Len(calls) = 2
    /\ calls[1].host = "h1" /\ calls[2].host = "h1"
    /\ calls[1].invoked /\ calls[1].stored > calls[1].at
    /\ calls[2].at > calls[1].stored /\ calls[2].at < calls[1].expiry
    /\ ~calls[2].invoked /\ calls[2].ret = calls[1].ret

\* ------------------------------------------------------------------------
\* C19 A constructor call of either class with an empty list throws
\*     invalid_argument and leaves no balancer; with a non-empty list it
\*     yields a balancer over that list with the cursor at 0 and the
\*     background health checks not running.
\* ------------------------------------------------------------------------
C19_EmptyListRejected ==
    (op = "construct" /\ given # <<>>) =>
        LET list == given[Len(given)] IN
        /\ list = <<>> => (lb = "none" /\ ret = "invalid_argument")
        /\ list # <<>> =>
              /\ lb \in {"RR", "WRR"}
              /\ ret # "invalid_argument"
              /\ serversList = list
              /\ currentServerIndex = 0
              /\ ~healthCheckRunning
              /\ healthCheckTask = 0

\* a constructor call with an empty list failed, the next one with a
\* non-empty list built a weighted balancer
C19_Witness ==
    /\ op = "construct"
    /\ Len(given) = 2
    /\ given[1] = <<>>
    /\ given[2] # <<>>
    /\ lb = "WRR"
    /\ weightedServersList # <<>>

\* ------------------------------------------------------------------------
\* C20 A weighted getNextServer call that finds no healthy target returns
\*     the first alive target of the expansion list in cyclic order from the
\*     cursor, scanned at index i, and leaves the cursor at (i + 1) mod L;
\*     L such calls in a row return every alive target of the expansion list.
\* ------------------------------------------------------------------------
ExpansionLen == Len(weightedServersList)

\* scan steps from cursor c to the (0-based) expansion index i
ExpansionOffset(i, c) == (i + ExpansionLen - (c % ExpansionLen)) % ExpansionLen

\* first expansion index, in cyclic order from cursor c, whose target is alive
FirstAliveInExpansion(c) ==
    CHOOSE i \in 0..(ExpansionLen - 1) :
        /\ Alive(weightedServersList[i + 1])
        /\ \A j \in 0..(ExpansionLen - 1) :
               Alive(weightedServersList[j + 1]) =>
                   ExpansionOffset(i, c) <= ExpansionOffset(j, c)

C20_FallbackWalksExpansion ==
    (/\ lb = "WRR"
     /\ op = "getNextServer"
     /\ ret # None
     /\ \A j \in 1..ExpansionLen : ~Usable(weightedServersList[j])) =>
        LET i == FirstAliveInExpansion(CursorBefore) IN
        /\ ret = weightedServersList[i + 1]
        /\ currentServerIndex = (i + 1) % ExpansionLen
        /\ Len(run) >= ExpansionLen =>
               \A j \in 1..ExpansionLen :
                   Alive(weightedServersList[j]) =>
                       \E k \in 1..Len(run) : run[k].r = weightedServersList[j]

\* ------------------------------------------------------------------------
\* C21 Whenever no probe is under way, a server that is not alive has
\*     failureCount >= 3, also after two workers have probed the same Server
\*     object at the same time with different results.
\* ------------------------------------------------------------------------
C21_DeadMeansThreeFailures ==
    pp.state \in {"idle", "returned"} =>
        \A s \in Servers : ~server[s].isAlive => server[s].failureCount >= FailureThreshold

\* ------------------------------------------------------------------------
\* C22 With startHealthChecks and stopHealthChecks called from several
\*     threads in any interleaving, at most one health-check loop thread is
\*     alive at any time.
\* ------------------------------------------------------------------------
C22_OneLoopAtMost == Cardinality(LiveLoops(healthLoops)) <= 1

\* ------------------------------------------------------------------------
\* C23 startBackgroundPing called while a loop runs launches the new loop
\*     only after the old one has left pingWorker, so at most one loop thread
\*     is alive at any time; a loop pings the list as it was when
\*     startBackgroundPing was called, whatever the caller adds to its
\*     vector afterwards.
\* ------------------------------------------------------------------------
C23_RestartJoinsAndSnapshots ==
    /\ Cardinality(LiveLoops(pingLoops)) <= 1
    /\ ctl.pc \in {"start_store", "start_async"} => LiveLoops(pingLoops) = {}
    /\ \A l \in Loops :
           (pingLoops[l].pc = "sleep_for" /\ probed.loop = l) =>
               probed.servers = pingLoops[l].servers

\* a loop started while another one ran has pinged its one-entry list after
\* the caller added a second target to the vector
C23_Witness ==
    /\ ctl.pc = "idle" /\ op = "startBackgroundPing"
    /\ \E l \in Loops :
           /\ pingTask = l
           /\ pingLoops[l].pc = "sleep_for"
           /\ probed = [loop |-> l, servers |-> <<"s1">>]
           /\ \E k \in Loops : k # l /\ pingLoops[k].pc = "exited"
    /\ callerList = <<"s1", "s2">>

\* ------------------------------------------------------------------------
\* C24 A cycle of the background loop pings the pool as it is when the
\*     cycle takes the pool lock: the pool does not change while the cycle
\*     runs, a target whose addServer returned before is in the list pinged,
\*     and no target of an address whose removeServer returned before is.
\* ------------------------------------------------------------------------
C24_CyclePingsPoolAtStart ==
    /\ cycle.state = "running" => serversList = cycle.servers
    /\ cycle.state \in {"running", "done"} =>
           /\ \A s \in cycle.added : \E i \in 1..Len(cycle.servers) : cycle.servers[i] = s
           /\ \A a \in cycle.removed : ~HasAddress(cycle.servers, a)

\* a cycle has pinged a target added while the loop ran, after the target
\* at the other address was removed
C24_Witness ==
    /\ cycle.state = "done"
    /\ healthCheckTask # 0
    /\ cycle.added = {"s2"}
    /\ cycle.removed = {"a"}
    /\ cycle.servers = <<"s2">>
    /\ server["s2"].isHealthy

\* ------------------------------------------------------------------------
\* C25 pingServers returns true exactly when no probe of the call came back
\*     false, under every interleaving of the workers; on an empty list it
\*     returns true without a probe; a probe that fails stops no other entry
\*     from being probed and updated.
\* ------------------------------------------------------------------------
C25_ResultIsConjunction ==
    pp.state = "returned" =>
        /\ pp.ret = ~anyFailed
        /\ \A i \in 1..MaxPingLen : probes[i] = (IF i <= Len(pp.servers) THEN 1 ELSE 0)
        /\ WorkersDone
        /\ Len(pp.servers) = 0 => pp.ret

\* a ping of three entries by two workers has returned false: one probe of
\* s1 failed, the entry of s2 was probed with success
C25_Witness ==
    /\ pp.state = "returned"
    /\ pp.servers = <<"s1", "s1", "s2">>
    /\ pp.poolSize = 2
    /\ ~pp.ret
    /\ anyFailed
    /\ \A i \in 1..3 : probes[i] = 1
    /\ server["s2"].isHealthy /\ server["s2"].failureCount = 0
    /\ server["s1"].failureCount = 1

\* ------------------------------------------------------------------------
\* C26 When getNextServer has rebuilt the expansion list, the list holds,
\*     for each pool target in pool order, weight copies in a row if the
\*     target is alive and none if it is not; the list is rebuilt whenever
\*     it is found empty, so that after a rebuild that found no target alive
\*     a later call returns a target once one is alive.
\* ------------------------------------------------------------------------
Share(i) == IF Alive(serversList[i]) THEN server[serversList[i]].weight ELSE 0

RECURSIVE SharesBefore(_)
SharesBefore(i) == IF i <= 1 THEN 0 ELSE SharesBefore(i - 1) + Share(i - 1)

IsExpansion(list) ==
    /\ Len(list) = SharesBefore(PoolLen + 1)
    /\ \A i \in 1..PoolLen : \A k \in 1..Share(i) :
           list[SharesBefore(i) + k] = serversList[i]

C26_RebuildIsExpansion ==
    (lb = "WRR" /\ op = "getNextServer") =>
        /\ rebuild.last => IsExpansion(weightedServersList)
        /\ weightedServersList = <<>> =>
               /\ ret = None
               /\ \A i \in 1..PoolLen : Share(i) = 0
        /\ (rebuild.last /\ weightedServersList # <<>>) =>
               /\ ret # None
               /\ Alive(ret)
               /\ InPool(ret)

\* the list was built while no target was alive; after a target came back
\* the call has rebuilt the list and returned that target
C26_Witness ==
    /\ lb = "WRR" /\ op = "getNextServer"
    /\ rebuild.last /\ rebuild.wasDead
    /\ ret # None
    /\ PoolLen = 2
    /\ \E i \in 1..PoolLen : ~Alive(serversList[i])

\* ------------------------------------------------------------------------
\* C27 Every server of the pool of a weighted balancer has weight >= 1, so
\*     that an alive server has at least one copy in a rebuilt expansion list.
\* ------------------------------------------------------------------------
C27_WeightAtLeastOne ==
    \A i \in 1..PoolLen : server[serversList[i]].weight >= 1

C29_LiteralAndFailure ==
    /\ dnsCache["10.0.0.1"] = NoEntry
    /\ dns.host # "10.0.0.1"
    /\ \A i \in 1..Len(calls) :
        LET c == calls[i]
            last == \A j \in (i + 1)..Len(calls) : calls[j].host # c.host
        IN  /\ c.host = "10.0.0.1" =>
                 c.ret = c.host /\ ~c.invoked /\ c.stored = -1 /\ c.expiry = -1
            /\ (c.host # "10.0.0.1" /\ c.ret = "") =>
                 /\ c.invoked
                 /\ c.stored = -1
                 /\ last => /\ dnsCache[c.host].expiryTime = c.expiry
                            /\ ~CacheValid(dnsCache[c.host], now)
                 /\ (i < Len(calls) /\ calls[i + 1].host = c.host) =>
                        calls[i + 1].invoked

\* a literal was resolved, then a host name whose resolution failed although
\* an (expired) entry for it is cached, and the next call for that host name
\* is inside getaddrinfo
C29_Witness ==
    /\ Len(calls) = 2
    /\ calls[1].host = "10.0.0.1"
    /\ calls[2].host = "h1" /\ calls[2].ret = "" /\ calls[2].expiry # -1
    /\ dns.pc = "getaddrinfo" /\ dns.host = "h1"

\* ------------------------------------------------------------------------
\* C30 With getNextServer of either class, addServer, removeServer,
\*     getServerCount, getMaxHealthCheckFailures and performHealthCheck
\*     called from several threads, in every interleaving: a thread that
\*     holds _weightedListMutex or _configMutex waits for no lock, the
\*     list a scan runs over keeps the size read at the start of the scan
\*     and the scan visits at most that many entries, and in the end every
\*     call has returned.
\* ------------------------------------------------------------------------
AcquiredInOrder ==
    \A t \in Threads :
        /\ weightedListMutex = t => threads[t].pc \in {"begin", "scan"}
        /\ configMutex = t => threads[t].pc = "config"
        /\ (\E h \in serversMutex : h.thread = t) =>
               threads[t].pc \in {"begin", "scan", "weighted_lock", "size",
                                  "pingServers", "mutate"}

ScanWithinOneRound ==
    \A t \in Threads :
        threads[t].pc = "scan" =>
            /\ threads[t].serverCount = Len(ScannedList)
            /\ threads[t].i <= threads[t].serverCount

AllReturned == \A t \in Threads : threads[t].pc = "idle"

C30_EveryCallReturns ==
    /\ [](AcquiredInOrder /\ ScanWithinOneRound)
    /\ <>[]AllReturned

\* one thread holds the pool lock shared and waits for _weightedListMutex,
\* which another thread holds in the middle of its scan, while a third waits
\* for the pool lock in removeServer
C30_Witness ==
    \E a, b, c \in Threads :
        /\ threads[a].pc = "weighted_lock"
        /\ Holder(a, "shared") \in serversMutex
        /\ weightedListMutex = b
        /\ threads[b].pc = "scan" /\ threads[b].i >= 1
        /\ threads[c].pc = "unique_lock" /\ threads[c].call = "removeServer"

\* ------------------------------------------------------------------------
\* C31 removeServer leaves _currentServerIndex as it is, so that it may be
\*     at or past the new pool size; getNextServer of either class reads
\*     its list only at indices below the size of that list; and on a
\*     round-robin pool without a repeated object whose targets are all
\*     alive and healthy every N calls in a row return every pool target,
\*     also when the series starts with the cursor at or past N.
\* ------------------------------------------------------------------------
C31_StaleCursorStaysInRange ==
    /\ \A index \in reads.indices : index >= 0 /\ index < reads.size
    /\ (op = "getNextServer" /\ reads.size > 0) => reads.indices # {}
    /\ (lb = "RR" /\ op = "getNextServer" /\ PoolLen >= 1 /\ AllUsable
            /\ NoDuplicateObject(serversList)) =>
           \A j \in 1..Len(run) :
               j + PoolLen - 1 <= Len(run) =>
                   {run[k].r : k \in j..(j + PoolLen - 1)}
                       = {serversList[p] : p \in 1..PoolLen}

\* a pool of three was cut to two by removeServer with the cursor at 2; the
\* calls since then began at that cursor and have returned both targets
C31_Witness ==
    /\ lb = "RR" /\ op = "getNextServer" /\ PoolLen = 2 /\ AllUsable
    /\ NoDuplicateObject(serversList)
    /\ removed # {}
    /\ Len(run) >= PoolLen
    /\ run[1].c >= PoolLen
    /\ run[1].r # run[2].r

\* ------------------------------------------------------------------------
\* C32 Whatever the interleaving of incrementConnections and
\*     decrementConnections calls from several threads, _currentConnections
\*     never wraps below zero: it stays between 0 and the number of
\*     increments made, and is at least the increments minus the decrements
\*     entered.
\* ------------------------------------------------------------------------
C32_NeverWrapsBelowZero ==
    /\ currentConnections >= 0
    /\ currentConnections <= incremented
    /\ currentConnections >= incremented - decremented

====
